---- MODULE Spec2Model ----
(***************************************************************************)
(* A model of asyncpg_simpleorm's statement builder: the model registry    *)
(* (BaseModel), the statement value store (StatementValues), the builder   *)
(* (BaseStatement / Statement) and the four statement factories.           *)
(*                                                                         *)
(* Python values are written as their literal text ("None", "0", "''",     *)
(* "123", "'x'"); the builder only ever tests them for truthiness and      *)
(* copies them.  Query strings are kept as sequences of string tokens in   *)
(* which every "$", every placeholder number and the keyword "WHERE" is a  *)
(* token of its own, so that the string scan of _reset_counter can be      *)
(* modelled as the scan it is; Text(tokens) is the Python string.          *)
(***************************************************************************)
EXTENDS Integers, Sequences, FiniteSets, TLC

VARIABLES builder, call, calls, chain,
          objects, attrs, made, access,
          manager, server, task,
          reading,
          classes, column_keys,
          shared, scopes, driver

\* the state of the statement builder and of the model objects
statement_vars == <<builder, call, calls, chain>>

object_vars == <<objects, attrs, made, access>>

\* the state of the connection manager, of the database server it connects
\* to, and of the AsyncModel call under way
async_vars == <<manager, server, task>>

\* what the caller last read off the builder
reading_vars == <<reading>>

\* the classes defined so far, and the key of every Column object made
meta_vars == <<classes, column_keys>>

scope_vars == <<shared, scopes, driver>>

vars == <<statement_vars, object_vars, async_vars, reading_vars, meta_vars, scope_vars>>

---------------------------------------------------------------------------
(* Bounds of the model.                                                    *)

\* the largest number of keyword arguments given to one call
MaxKw == 2
\* the largest number of calls made with one builder, the constructor or
\* factory call that makes it included
MaxCalls == 2
\* the largest placeholder number the string scan is asked to recognise
MaxPlaceholder == 30

---------------------------------------------------------------------------
(* Python values.                                                          *)

None == "None"

Falsy == {"None", "0", "''", "False"}

Truthy(v) == v \notin Falsy

\* the values of the statement slots before anything is stored in them
NoValue == [qs |-> <<>>, args |-> <<>>, set |-> FALSE]

Value(qs, args) == [qs |-> qs, args |-> args, set |-> TRUE]

---------------------------------------------------------------------------
(* Strings.                                                                *)

Digits == <<"0", "1", "2", "3", "4", "5", "6", "7", "8", "9">>

\* '{}'.format(n) of a non-negative int
RECURSIVE Str(_)
Str(n) == IF n < 10 THEN Digits[n + 1]
          ELSE Str(n \div 10) \o Digits[(n % 10) + 1]

\* the Python string a token sequence stands for
RECURSIVE Text(_)
Text(toks) == IF toks = <<>> THEN "" ELSE Head(toks) \o Text(Tail(toks))

\* sep.join(parts), parts a sequence of token sequences
RECURSIVE join(_, _)
join(sep, parts) ==
    IF parts = <<>> THEN <<>>
    ELSE IF Len(parts) = 1 THEN parts[1]
    ELSE parts[1] \o <<sep>> \o join(sep, Tail(parts))

\* the index of the first token equal to sep, 0 when there is none
FirstIndex(toks, sep) ==
    IF \E i \in 1..Len(toks) : toks[i] = sep
    THEN CHOOSE i \in 1..Len(toks) :
            toks[i] = sep /\ \A j \in 1..(i - 1) : toks[j] # sep
    ELSE 0

\* string.split(sep): the pieces between the occurrences of sep
RECURSIVE split(_, _)
split(toks, sep) ==
    IF FirstIndex(toks, sep) = 0 THEN <<toks>>
    ELSE <<SubSeq(toks, 1, FirstIndex(toks, sep) - 1)>>
         \o split(SubSeq(toks, FirstIndex(toks, sep) + 1, Len(toks)), sep)

\* the decimal texts int() is asked about
IntLiterals == {Str(n) : n \in 0..MaxPlaceholder}

IntOf == [n \in 0..MaxPlaceholder |-> Str(n)]

\* int(s) succeeds: s is the decimal text of an integer and nothing else
IsInt(piece) == Text(piece) \in IntLiterals

int(piece) == CHOOSE n \in 0..MaxPlaceholder : IntOf[n] = Text(piece)

\* the pieces int() accepts, converted, in order
RECURSIVE SelectInts(_)
SelectInts(pieces) ==
    IF pieces = <<>> THEN <<>>
    ELSE (IF IsInt(Head(pieces)) THEN <<int(Head(pieces))>> ELSE <<>>)
         \o SelectInts(Tail(pieces))

---------------------------------------------------------------------------
(* Model types: the registry a BaseModel subclass exposes.                 *)

Column(attr, key, primary_key, default) ==
    [attr |-> attr, key |-> key, primary_key |-> primary_key, default |-> default]

ModelClasses == {"User", "Pair", "Log"}

\* the classes declared: those statements are built for, and two more whose
\* instances are read and written: Account, with a default factory on each
\* column, and Link, where the key of one column is the attribute name of
\* the other
DeclaredClasses == ModelClasses \cup {"Account", "Link"}

\* vars(cls) restricted to the Column descriptors, in declaration order
ColumnsOf ==
    [cls \in DeclaredClasses |->
        CASE cls = "User" -> << Column("id", "_id", TRUE, None),
                                Column("name", "name", FALSE, "'test'"),
                                Column("email", "email", FALSE, None) >>
          [] cls = "Pair" -> << Column("a", "_a", TRUE, None),
                                Column("b", "b", TRUE, None) >>
          [] cls = "Log"  -> << Column("msg", "msg", FALSE, None) >>
          [] cls = "Account" -> << Column("id", "_id", TRUE, "uuid.uuid4"),
                                   Column("note", "note", FALSE, "none_factory") >>
          [] cls = "Link" -> << Column("source", "target", FALSE, "0"),
                                Column("target", "origin", FALSE, None) >>]

_columns(cls) == ColumnsOf[cls]

tablename(cls) ==
    CASE cls = "User" -> "users"
      [] cls = "Pair" -> "pairs"
      [] cls = "Log"  -> "log"
      [] cls = "Account" -> "account"
      [] cls = "Link" -> "link"

column_names(cls) == [i \in 1..Len(_columns(cls)) |-> _columns(cls)[i].key]

RECURSIVE KeysWhere(_, _)
KeysWhere(cols, pk) ==
    IF cols = <<>> THEN <<>>
    ELSE (IF Head(cols).primary_key = pk THEN <<Head(cols).key>> ELSE <<>>)
         \o KeysWhere(Tail(cols), pk)

primary_keys(cls) == KeysWhere(_columns(cls), TRUE)

\* the test both loops make on a column: its key or its attribute is the name
column_matches(col, name) == col.key = name \/ col.attr = name

\* the first column that the loops of attr_name_for_column and
\* ensured_column_name stop at for this name, 0 when they fall through
FirstMatch(cols, name) ==
    IF \E i \in 1..Len(cols) : column_matches(cols[i], name)
    THEN CHOOSE i \in 1..Len(cols) :
            /\ column_matches(cols[i], name)
            /\ \A j \in 1..(i - 1) : ~column_matches(cols[j], name)
    ELSE 0

MatchIndex(cls, name) == FirstMatch(_columns(cls), name)

\* attr_name_for_column / ensured_column_name raise ValueError
HasColumn(cls, name) == MatchIndex(cls, name) # 0

\* what attr_name_for_column returns at the column it stops at
attr_name_at(col, column_name) ==
    IF col.key = column_name THEN col.attr ELSE column_name

attr_name_for_column(cls, column_name) ==
    attr_name_at(_columns(cls)[MatchIndex(cls, column_name)], column_name)

\* an ensured_column_name that returns the name it was given
column_name_at_unchanged(col, attr_name) == attr_name

\* what ensured_column_name returns at the column it stops at
column_name_at(col, attr_name) ==
    IF attr_name = col.key THEN attr_name ELSE col.key

ensured_column_name(cls, attr_name) ==
    column_name_at(_columns(cls)[MatchIndex(cls, attr_name)], attr_name)

---------------------------------------------------------------------------
(* Model objects a builder can be bound to: None, a model class, or an     *)
(* instance of one.  stored[i] is what the instance holds under the hidden *)
(* key of its i-th column ("None" when nothing was set).                   *)

ModelNone == [cls |-> "None", kind |-> "none", stored |-> <<>>]

ModelClass(cls) == [cls |-> cls, kind |-> "class", stored |-> <<>>]

ModelInstance(cls, stored) == [cls |-> cls, kind |-> "instance", stored |-> stored]

\* Column.__get__ on an instance: the stored value, or the default
Column__get__(model, i) ==
    IF model.stored[i] = None THEN _columns(model.cls)[i].default
    ELSE model.stored[i]

\* ... which it stores on the instance before returning it
Column__get__stored(model, i) ==
    [model EXCEPT !.stored[i] = Column__get__(model, i)]

AttrIndex(cls, attr) ==
    CHOOSE i \in 1..Len(_columns(cls)) : _columns(cls)[i].attr = attr

\* the instance after the columns named in cols have been read, in order
RECURSIVE ReadColumns(_, _)
ReadColumns(model, cols) ==
    IF cols = <<>> THEN model
    ELSE ReadColumns(
            Column__get__stored(model,
                AttrIndex(model.cls, attr_name_for_column(model.cls, Head(cols)))),
            Tail(cols))

---------------------------------------------------------------------------
(* The statement value store and the builder around it.                    *)

StatementKinds == <<"select", "insert", "update", "delete">>

ClauseKinds == <<"from_", "where">>

\* BaseStatement.__init__
BaseStatement__init__(model, kwargs, arg_count) ==
    [model |-> model, kwargs |-> kwargs, count |-> arg_count,
     select |-> NoValue, insert |-> NoValue, update |-> NoValue,
     delete |-> NoValue, from_ |-> NoValue, where |-> NoValue]

\* what a call leaves behind: the builder, the exception that left the call
\* ("none" when it returned), the exception's argument, the returned value,
\* and whether an exception was caught and dropped on the way
Returned(b, val) ==
    [b |-> b, exc |-> "none", excarg |-> "", val |-> val, swallowed |-> FALSE]

Raised(b, exc, excarg) ==
    [b |-> b, exc |-> exc, excarg |-> excarg, val |-> <<>>, swallowed |-> FALSE]

\* StatementValues.get_statement(): the first statement slot holding a value
get_statement(b) ==
    IF \E i \in 1..Len(StatementKinds) : b[StatementKinds[i]].set
    THEN b[StatementKinds[CHOOSE i \in 1..Len(StatementKinds) :
              /\ b[StatementKinds[i]].set
              /\ \A j \in 1..(i - 1) : ~b[StatementKinds[j]].set]]
    ELSE NoValue

\* StatementValues.get_clauses(), without the clauses that are None
RECURSIVE SetFragments(_, _)
SetFragments(b, kinds) ==
    IF kinds = <<>> THEN <<>>
    ELSE (IF b[Head(kinds)].set THEN <<b[Head(kinds)]>> ELSE <<>>)
         \o SetFragments(b, Tail(kinds))

\* clauses taken with where before from
get_clauses_where_first(b) == SetFragments(b, <<"where", "from_">>)

get_clauses(b) == SetFragments(b, ClauseKinds)

\* the query strings / the args of a sequence of fragments
FragmentStrings(frags) == [i \in 1..Len(frags) |-> frags[i].qs]

RECURSIVE FragmentArgs(_)
FragmentArgs(frags) ==
    IF frags = <<>> THEN <<>> ELSE Head(frags).args \o FragmentArgs(Tail(frags))

\* query_string(sep) of a builder holding a statement (it raises TypeError
\* when get_statement() finds none: the callers test that first)
query_string(b, sep) ==
    join(sep, <<get_statement(b).qs>> \o FragmentStrings(get_clauses(b)))

\* args flattened with those of the clauses before those of the statement
query_args_clauses_first(b) == FragmentArgs(get_clauses(b)) \o get_statement(b).args

query_args(b) == get_statement(b).args \o FragmentArgs(get_clauses(b))

\* StatementValues.__iter__ / BaseStatement.query
query(b) == <<Text(query_string(b, "\n"))>> \o query_args(b)

\* StatementValues.query_string(sep) as a call: get_statement(strict=True)
\* raises TypeError when no statement slot holds a value
StatementValues_query_string(b, sep) ==
    IF ~get_statement(b).set THEN Raised(b, "TypeError", "")
    ELSE Returned(b, Text(query_string(b, sep)))

\* StatementValues.query_args() as a call: it raises nothing
StatementValues_query_args(b) == Returned(b, query_args(b))

\* StatementValues.__iter__ as a call, the iterator drained:
\* (self.query_string(), ) + self.query_args()
StatementValues__iter__(b) ==
    IF ~get_statement(b).set THEN Raised(b, "TypeError", "")
    ELSE Returned(b, query(b))

\* BaseStatement.query(): tuple(self._values)
BaseStatement_query(b) == StatementValues__iter__(b)

\* BaseStatement.__iter__: iter(self._values)
BaseStatement__iter__(b) == StatementValues__iter__(b)

\* nothing was read off the builder since it last changed
NoReading ==
    [done |-> FALSE, sep |-> "", query_string |-> Returned(<<>>, <<>>),
     query_args |-> Returned(<<>>, <<>>), query |-> Returned(<<>>, <<>>),
     iter |-> Returned(<<>>, <<>>)]

\* a descriptor that never refuses a statement
StatementDescriptor_never_refuses(b, key) == FALSE

\* a descriptor that refuses a statement only when another kind is held
StatementDescriptor_refuses_other_kind(b, key) ==
    get_statement(b).set /\ ~b[key].set

\* StatementDescriptor.__set__ refuses the value: a statement is already held
StatementDescriptor_refuses(b, key) == get_statement(b).set

\* BaseStatement.set_statement: self._values[key] = (query_string, args or ())
set_statement(b, key, qs, args) ==
    IF qs = <<>> THEN Returned(b, "self")
    ELSE IF key \in {"select", "insert", "update", "delete"}
            /\ StatementDescriptor_refuses(b, key)
         THEN Raised(b, "TypeError", "")
         ELSE Returned([b EXCEPT ![key] = Value(qs, args)], "self")

set_count(b, count) == [b EXCEPT !.count = count]

\* `if kwargs: self.kwargs = kwargs`
set_kwargs(b, kwargs) == IF kwargs # <<>> THEN [b EXCEPT !.kwargs = kwargs] ELSE b

\* ', '.join of the column names, each behind the table name when asked
column_string_of(table, cols, with_tablename) ==
    IF with_tablename
    THEN join(", ", [i \in 1..Len(cols) |-> <<table, ".", cols[i]>>])
    ELSE join(", ", [i \in 1..Len(cols) |-> <<cols[i]>>])

\* BaseStatement._column_string of a builder bound to a model
_column_string(b, with_tablename) ==
    column_string_of(tablename(b.model.cls), column_names(b.model.cls), with_tablename)

---------------------------------------------------------------------------
(* Statement: argument resolution.                                         *)

\* dict.get(key, default) on a dict kept as a sequence of <<key, value>>
dict_get(kwargs, key, default) ==
    IF \E i \in 1..Len(kwargs) : kwargs[i][1] = key
    THEN kwargs[CHOOSE i \in 1..Len(kwargs) : kwargs[i][1] = key][2]
    ELSE default

_get_column(b, col) ==
    Column__get__(b.model, AttrIndex(b.model.cls, attr_name_for_column(b.model.cls, col)))

\* the generator of _get_args_from_model over the column names cols: every
\* read leaves its value on the instance
args_from_model(b, cols) ==
    Returned([b EXCEPT !.model = ReadColumns(b.model, cols)],
             [i \in 1..Len(cols) |->
                 _get_column([b EXCEPT !.model =
                     ReadColumns(b.model, SubSeq(cols, 1, i - 1))], cols[i])])

_get_args_from_model(b) ==
    IF b.model.kind # "instance" THEN Raised(b, "TypeError", "model")
    ELSE args_from_model(b, column_names(b.model.cls))

\* the generator of _get_args_from_kwargs over the column names cols
args_from_kwargs(b, cols) ==
    Returned(b, [i \in 1..Len(cols) |->
        dict_get(b.kwargs, cols[i],
            dict_get(b.kwargs, attr_name_for_column(b.model.cls, cols[i]), None))])

_get_args_from_kwargs(b) ==
    IF b.kwargs = <<>> THEN Raised(b, "TypeError", "kwargs")
    ELSE IF b.model.kind = "none" THEN Raised(b, "AttributeError", "column_names")
    ELSE args_from_kwargs(b, column_names(b.model.cls))

\* `except TypeError: return tuple(self._get_args_from_kwargs())`
args_or_kwargs(b, r) ==
    IF r.exc = "TypeError" THEN _get_args_from_kwargs(b) ELSE r

_get_args(b) == args_or_kwargs(b, _get_args_from_model(b))

---------------------------------------------------------------------------
(* Statement: the WHERE builder.                                           *)

\* the `check` argument of _parse_where_items: None, or an iterable of keys
CheckNone == [is_none |-> TRUE, keys |-> <<>>]

Check(keys) == [is_none |-> FALSE, keys |-> keys]

InSeq(x, s) == \E i \in 1..Len(s) : s[i] = x

\* line 174, `value and check is None or key in check`, which Python reads
\* as (value and check is None) or (key in check): "accept", "reject", or
\* "TypeError" when `key in check` is evaluated with check None
where_item_test(key, value, check) ==
    IF Truthy(value) /\ check.is_none THEN "accept"
    ELSE IF check.is_none THEN "TypeError"
    ELSE IF InSeq(key, check.keys) THEN "accept"
    ELSE "reject"

\* lines 169-172: the key made a database column name when it resolves
where_item_key(cls, key) ==
    IF HasColumn(cls, key) THEN ensured_column_name(cls, key) ELSE key

\* a loop that lets a key outside the check-set pass in strict mode too
where_item_step_lenient(cls, acc, key, value, t, check, strict_check) ==
    IF t = "accept"
    THEN [acc EXCEPT
            !.seen = @ + 1,
            !.count = @ + 1,
            !.strings = Append(@, <<tablename(cls), ".", key, " = ",
                                    "$", Str(acc.count)>>),
            !.args = Append(@, value)]
    ELSE IF t = "TypeError" THEN [acc EXCEPT !.seen = @ + 1, !.exc = "TypeError"]
    ELSE [acc EXCEPT !.seen = @ + 1]

\* one turn of the loop of _parse_where_items, for the item <<key, value>>
\* whose test came out as t; acc holds the counter, the strings and args
\* collected, the exception that ended the loop and the number of items
\* taken from the iterable
where_item_step(cls, acc, key, value, t, check, strict_check) ==
    CASE t = "accept" ->
            [acc EXCEPT
                !.seen = @ + 1,
                !.count = @ + 1,
                !.strings = Append(@, <<tablename(cls), ".", key, " = ",
                                        "$", Str(acc.count)>>),
                !.args = Append(@, value)]
      [] t = "TypeError" -> [acc EXCEPT !.seen = @ + 1, !.exc = "TypeError"]
      [] t = "reject" ->
            IF strict_check /\ ~check.is_none
            THEN [acc EXCEPT !.seen = @ + 1, !.exc = "ValueError", !.excarg = key]
            ELSE [acc EXCEPT !.seen = @ + 1]

where_item(cls, acc, key, value, check, strict_check) ==
    where_item_step(cls, acc, key, value, where_item_test(key, value, check),
                    check, strict_check)

\* the loop of _parse_where_items over items = <<key, value>> pairs
RECURSIVE where_items_loop(_, _, _, _, _)
where_items_loop(cls, acc, items, check, strict_check) ==
    IF items = <<>> \/ acc.exc # "none" THEN acc
    ELSE where_items_loop(cls,
            where_item(cls, acc, where_item_key(cls, Head(items)[1]),
                       Head(items)[2], check, strict_check),
            Tail(items), check, strict_check)

\* how _parse_where_items ends once its loop has: the builder's counter has
\* advanced as the loop went, whatever way the call ends
where_items_end(b, acc) ==
    IF acc.exc # "none"
    THEN [Raised(set_count(b, acc.count), acc.exc, acc.excarg) EXCEPT !.val = acc.seen]
    ELSE IF Len(acc.strings) = 0
    THEN [Raised(set_count(b, acc.count), "TypeError", "") EXCEPT !.val = acc.seen]
    ELSE Returned(set_count(b, acc.count),
                  [str |-> join(" AND", acc.strings), args |-> acc.args])

_parse_where_items(b, items, check, strict_check) ==
    where_items_end(b,
        where_items_loop(b.model.cls,
            [count |-> b.count, strings |-> <<>>, args |-> <<>>,
             exc |-> "none", excarg |-> "", seen |-> 0],
            items, check, strict_check))

\* the instance after _parse_where_items, ending as r, has read the primary
\* keys it asked its generator for
where_model_read(b, pks, r) ==
    [r EXCEPT !.b.model =
        ReadColumns(b.model, SubSeq(pks, 1, IF r.exc = "none" THEN Len(pks) ELSE r.val))]

\* _parse_where over the primary keys pks of a bound instance, read from it
\* one by one as the loop asks for them
where_from_model(b, pks) ==
    where_model_read(b, pks,
        _parse_where_items(b,
            [i \in 1..Len(pks) |-> <<pks[i], _get_column(b, pks[i])>>],
            CheckNone, FALSE))

\* a _parse_where that checks kwargs strictly in primary-key mode too
_parse_where_always_strict(b, only_primary_keys) ==
    IF b.model.kind = "none" THEN Raised(b, "AttributeError", "primary_keys")
    ELSE IF b.kwargs # <<>>
    THEN _parse_where_items(b, b.kwargs,
            Check(IF only_primary_keys THEN primary_keys(b.model.cls)
                  ELSE column_names(b.model.cls)),
            TRUE)
    ELSE IF b.model.kind = "instance"
    THEN where_from_model(b, primary_keys(b.model.cls))
    ELSE Raised(b, "TypeError", "")

\* _parse_where: kwargs when there are any, else the primary keys of a bound
\* instance
_parse_where(b, only_primary_keys) ==
    IF b.model.kind = "none" THEN Raised(b, "AttributeError", "primary_keys")
    ELSE IF b.kwargs # <<>>
    THEN _parse_where_items(b, b.kwargs,
            Check(IF only_primary_keys THEN primary_keys(b.model.cls)
                  ELSE column_names(b.model.cls)),
            ~only_primary_keys)
    ELSE IF b.model.kind = "instance"
    THEN where_from_model(b, primary_keys(b.model.cls))
    ELSE Raised(b, "TypeError", "")

\* _reset_counter._find_ints: the integers int() accepts among the pieces
\* that follow stmt, cut at every "$"
_find_ints(stmt, string) ==
    IF InSeq(stmt, string)
    THEN SelectInts(split(split(string, stmt)[2], "$"))
    ELSE <<>>

\* `if count is not None: instance.set_count(count)`, count = next(ints, None)
reset_count(b, ints) ==
    IF ints # <<>> THEN set_count(b, Head(ints)) ELSE b

\* the _reset_counter('WHERE') decorator, before the decorated where() runs
_reset_counter(b) == reset_count(b, _find_ints("WHERE", query_string(b, "\n")))

---------------------------------------------------------------------------
(* Statement: the operations.                                              *)

from_(b) ==
    IF b.model.kind = "none" THEN Raised(b, "AttributeError", "tablename")
    ELSE set_statement(b, "from_", <<"FROM ", tablename(b.model.cls)>>, <<>>)

\* the try block of where() once _parse_where has ended as p
where_try(p, safe_call) ==
    IF p.exc = "none"
    THEN set_statement(p.b, "where", <<"WHERE", " ">> \o p.val.str, p.val.args)
    ELSE IF p.exc \in {"TypeError", "ValueError"} /\ safe_call
    THEN [Returned(p.b, "self") EXCEPT !.swallowed = TRUE]
    ELSE Raised(p.b, p.exc, p.excarg)

\* where(), decorated: the counter reset reads query_string(), which raises
\* TypeError when no statement is set, before the body's try block is entered
where(b, only_primary_keys, safe_call, kwargs) ==
    IF ~get_statement(b).set THEN Raised(b, "TypeError", "")
    ELSE where_try(_parse_where(set_kwargs(_reset_counter(b), kwargs),
                                only_primary_keys),
                   safe_call)

\* the _callback decorator: the decorated body ended as r; when it returned,
\* the named method is called with the decorator's kwargs
_callback_from_(r) == IF r.exc # "none" THEN r ELSE from_(r.b)

_callback_where(r, only_primary_keys, safe_call) ==
    IF r.exc # "none" THEN r ELSE where(r.b, only_primary_keys, safe_call, <<>>)

\* the body of select(), before its callback
select_body(b) ==
    IF b.model.kind = "none" THEN Raised(b, "AttributeError", "column_names")
    ELSE set_statement(b, "select", <<"SELECT ">> \o _column_string(b, TRUE), <<>>)

\* a select() without its callback
select_without_callback(b) == select_body(b)

\* @_callback('from_')
select(b) == _callback_from_(select_body(b))

\* placeholders numbered from the number after the counter's
placeholders_one_late(count, n) ==
    join(", ", [i \in 1..n |-> <<"$", Str(count + i)>>])

\* ', '.join of '${}'.format(next(self.count)) for each of n args
placeholders(count, n) ==
    join(", ", [i \in 1..n |-> <<"$", Str(count + i - 1)>>])

\* insert() once _get_args has ended as a
insert_args(b, a) ==
    IF a.exc # "none" THEN a
    ELSE set_statement([a.b EXCEPT !.count = @ + Len(a.val)], "insert",
            <<"INSERT INTO ", tablename(b.model.cls), " (">>
            \o _column_string(b, FALSE) \o <<") VALUES (">>
            \o placeholders(a.b.count, Len(a.val)) \o <<")">>,
            a.val)

insert(b, kwargs) == insert_args(b, _get_args(set_kwargs(b, kwargs)))

\* update() once _get_args has ended as a
update_args(b, a) ==
    IF a.exc # "none" THEN a
    ELSE set_statement([a.b EXCEPT !.count = @ + Len(a.val)], "update",
            <<"UPDATE ", tablename(b.model.cls), " SET (">>
            \o _column_string(b, FALSE) \o <<") = (">>
            \o placeholders(a.b.count, Len(a.val)) \o <<")">>,
            a.val)

\* the body of update(), before its callback
update_body(b, kwargs) == update_args(b, _get_args(set_kwargs(b, kwargs)))

\* @_callback('where', primary_keys=True)
update(b, kwargs) == _callback_where(update_body(b, kwargs), TRUE, FALSE)

\* the body of delete(), before its callback
delete_body(b) ==
    IF b.model.kind = "none" THEN Raised(b, "AttributeError", "tablename")
    ELSE set_statement(b, "delete", <<"DELETE FROM ", tablename(b.model.cls)>>, <<>>)

\* @_callback('where', primary_keys=True, safe_call=True)
delete(b) == _callback_where(delete_body(b), TRUE, TRUE)

---------------------------------------------------------------------------
(* Model objects read and written: the Column descriptor with its default  *)
(* factories, and the attribute access of BaseModel.  An object is the     *)
(* instance (what it holds under the hidden key of each column) together   *)
(* with its plain attributes.                                              *)

\* the callables given as defaults: uuid.uuid4 returns a new value on every
\* call, none_factory returns None
Callables == {"uuid.uuid4", "none_factory"}

callable(default) == default \in Callables

\* what the n-th call of a default factory returns
default_call(f, n) == IF f = "uuid.uuid4" THEN "u" \o Str(n) ELSE None

\* `self.default() if callable(self.default) else self.default`, when the
\* factories have been called made[f] times
default_rv(col, made_) ==
    IF callable(col.default) THEN default_call(col.default, made_[col.default] + 1)
    ELSE col.default

\* the calls made of each factory after that expression
default_made(col, made_) ==
    IF callable(col.default) THEN [made_ EXCEPT ![col.default] = @ + 1]
    ELSE made_

\* Column.__set__: setattr(instance, self._hidden_key, value)
Column__set__(model, i, value) == [model EXCEPT !.stored[i] = value]

\* a __get__ that never stores the default it resolved
Column__get__call_uncached(model, i, made_) ==
    IF model.stored[i] # None
    THEN [model |-> model, made |-> made_, rv |-> model.stored[i]]
    ELSE [model |-> model,
          made  |-> default_made(_columns(model.cls)[i], made_),
          rv    |-> default_rv(_columns(model.cls)[i], made_)]

\* Column.__get__ on an instance, with the calls it makes of the default:
\* the instance it leaves, the calls made of each factory, the value returned
Column__get__call(model, i, made_) ==
    IF model.stored[i] # None
    THEN [model |-> model, made |-> made_, rv |-> model.stored[i]]
    ELSE [model |-> Column__set__(model, i, default_rv(_columns(model.cls)[i], made_)),
          made  |-> default_made(_columns(model.cls)[i], made_),
          rv    |-> default_rv(_columns(model.cls)[i], made_)]

\* a plain attribute that was never assigned
Unset == "<unset>"

\* the names the program uses on an object of each class
NamesOf(cls) ==
    CASE cls = "Account" -> {"id", "_id", "note", "bogus"}
      [] cls = "Link"    -> {"source", "target", "origin", "bogus"}
      [] OTHER           -> {}

AttrNames == UNION {NamesOf(cls) : cls \in DeclaredClasses}

NoAttrs == [name \in AttrNames |-> Unset]

Object(model, plain) == [model |-> model, attrs |-> plain]

\* the class has a Column under this attribute name
IsColumnAttr(cls, name) == \E i \in 1..Len(_columns(cls)) : _columns(cls)[i].attr = name

\* object.__setattr__: a Column is a data descriptor, found on the class
\* before the instance's own attributes
object__setattr__(obj, key, value) ==
    IF IsColumnAttr(obj.model.cls, key)
    THEN [obj EXCEPT !.model = Column__set__(@, AttrIndex(obj.model.cls, key), value)]
    ELSE [obj EXCEPT !.attrs[key] = value]

\* a __setattr__ that takes the key as the attribute name without resolving it
BaseModel__setattr__unresolved(obj, key, value) == object__setattr__(obj, key, value)

\* BaseModel.__setattr__: the key resolved by attr_name_for_column, kept as
\* it is on ValueError
BaseModel__setattr__(obj, key, value) ==
    object__setattr__(obj,
        IF HasColumn(obj.model.cls, key)
        THEN attr_name_for_column(obj.model.cls, key) ELSE key,
        value)

\* the loop of BaseModel.__init__ over kwargs.items()
RECURSIVE init_loop(_, _)
init_loop(obj, kwargs) ==
    IF kwargs = <<>> THEN obj
    ELSE init_loop(BaseModel__setattr__(obj, Head(kwargs)[1], Head(kwargs)[2]),
                   Tail(kwargs))

\* cls(**kwargs)
BaseModel__init__(cls, kwargs) ==
    init_loop(Object(ModelInstance(cls, [i \in 1..Len(_columns(cls)) |-> None]),
                     NoAttrs),
              kwargs)

\* the read of a Column attribute that ended as g
column_read(obj, g) ==
    [obj |-> [obj EXCEPT !.model = g.model], made |-> g.made,
     rv |-> g.rv, exc |-> "none"]

\* getattr(obj, name): through the Column when the class has one under that
\* name, else the plain attribute, else AttributeError
getattr(obj, name, made_) ==
    IF IsColumnAttr(obj.model.cls, name)
    THEN column_read(obj,
            Column__get__call(obj.model, AttrIndex(obj.model.cls, name), made_))
    ELSE IF obj.attrs[name] # Unset
    THEN [obj |-> obj, made |-> made_, rv |-> obj.attrs[name], exc |-> "none"]
    ELSE [obj |-> obj, made |-> made_, rv |-> None, exc |-> "AttributeError"]

---------------------------------------------------------------------------
(* The inputs the calls are given.                                         *)

Instances ==
    {ModelInstance("User", <<i, "'x'", None>>) : i \in {None, "0", "''"}}
    \cup {ModelInstance("User", <<"9", None, None>>)}
    \cup {ModelInstance("Pair", <<"7", b>>) : b \in {"0", "8"}}
    \cup {ModelInstance("Log", <<"'m'">>)}

Models == {ModelNone} \cup {ModelClass(c) : c \in ModelClasses} \cup Instances

\* the keyword arguments a caller may give with a model, each name with the
\* values it may take
KwItems(cls) ==
    CASE cls = "User" -> {<<"id", "123">>, <<"name", "'y'">>, <<"bogus", "1">>}
      [] cls = "Pair" -> {<<"a", "5">>, <<"_a", "4">>, <<"b", "6">>}
      [] cls = "Log"  -> {<<"msg", "'n'">>, <<"msg", "''">>, <<"bogus", "1">>}
      [] OTHER        -> {<<"id", "123">>}

\* **kwargs: a dict, in the order the caller wrote it, of at most MaxKw entries
KwargsOf ==
    [cls \in ModelClasses \cup {"None"} |->
        UNION { { kw \in [1..n -> KwItems(cls)] :
                    \A i, j \in 1..n : i # j => kw[i][1] # kw[j][1] } : n \in 0..MaxKw }]

Kwargs(cls) == KwargsOf[cls]

---------------------------------------------------------------------------
(* The state: the builder the caller holds; the last call made, with what  *)
(* it was given (the model bound when it started, its keyword arguments    *)
(* and flags) and how it ended; the number of steps the caller has taken   *)
(* with the builder, the one that made it included;                        *)
(* and whether the calls so far are one factory call followed by where()   *)
(* calls that returned.                                                    *)

Called(op, factory, model, kwargs, pk, safe, r) ==
    [op |-> op, factory |-> factory, model |-> model, kwargs |-> kwargs,
     primary_keys |-> pk, safe_call |-> safe,
     exc |-> r.exc, excarg |-> r.excarg, swallowed |-> r.swallowed]

\* Statement(model): a builder is made, nothing is called on it
Constructed(model) ==
    Called("Statement", FALSE, model, <<>>, FALSE, FALSE,
           Returned(BaseStatement__init__(model, <<>>, 1), "self"))

---------------------------------------------------------------------------
(* AsyncModel: the connection managers, the status strings of the driver,  *)
(* and the call under way.  A connection is a number, the n-th one the     *)
(* server opened; the server keeps the connections the program holds, the  *)
(* idle ones of the pool, and the transactions begun.                      *)

\* `self._connection = None`: no connection
NoConnection == 0

NoManager == [kind |-> "none", keep_alive |-> FALSE, _connection |-> NoConnection]

\* ConnectionManager.__init__
ConnectionManager(keep_alive) ==
    [kind |-> "ConnectionManager", keep_alive |-> keep_alive,
     _connection |-> NoConnection]

\* PoolManager.__init__
PoolManager ==
    [kind |-> "PoolManager", keep_alive |-> FALSE, _connection |-> NoConnection]

\* the connection __aenter__ gets: the one kept alive, an idle one of the
\* pool, or a new one
acquired(mgr, srv) ==
    IF mgr.kind = "ConnectionManager" /\ mgr._connection # NoConnection
    THEN mgr._connection
    ELSE IF mgr.kind = "PoolManager" /\ srv.idle # {}
    THEN CHOOSE c \in srv.idle : \A d \in srv.idle : c <= d
    ELSE srv.opened + 1

\* ConnectionManager.__aenter__ / PoolManager.__aenter__ when the driver
\* raises nothing: the manager and the server they leave
aenter_manager(mgr, srv) == [mgr EXCEPT !._connection = acquired(mgr, srv)]

aenter_server(mgr, srv) ==
    [srv EXCEPT !.pool = @ \/ mgr.kind = "PoolManager",
                !.opened = IF acquired(mgr, srv) > @ THEN acquired(mgr, srv) ELSE @,
                !.held = @ \cup {acquired(mgr, srv)},
                !.idle = @ \ {acquired(mgr, srv)}]

\* an __aexit__ that lets go of the connection only when the block raised
\* nothing
aexit_manager_unless_raised(mgr, exctype) ==
    IF mgr.kind = "ConnectionManager" /\ mgr.keep_alive THEN mgr
    ELSE IF exctype # "none" THEN mgr
    ELSE [mgr EXCEPT !._connection = NoConnection]

\* ConnectionManager.__aexit__ / PoolManager.__aexit__: the manager they leave
aexit_manager(mgr, exctype) ==
    IF mgr.kind = "ConnectionManager" /\ mgr.keep_alive THEN mgr
    ELSE [mgr EXCEPT !._connection = NoConnection]

\* ... and the server, given the manager they leave: a connection the
\* manager let go of is closed, or released to the pool (the driver's
\* close() and release() are taken to return)
aexit_server(mgr, left, srv) ==
    IF left._connection # NoConnection THEN srv
    ELSE IF mgr.kind = "PoolManager"
    THEN [srv EXCEPT !.held = @ \ {mgr._connection},
                     !.idle = @ \cup {mgr._connection}]
    ELSE [srv EXCEPT !.held = @ \ {mgr._connection},
                     !.closed = @ \cup {mgr._connection}]

\* the decimal digits of a row count, one token each
RECURSIVE DigitTokens(_)
DigitTokens(n) ==
    IF n < 10 THEN <<Digits[n + 1]>>
    ELSE DigitTokens(n \div 10) \o <<Digits[(n % 10) + 1]>>

\* the status string the driver returns from execute(): "UPDATE n",
\* "DELETE n", "INSERT 0 n", one token per character of the numbers
status(command, rows) ==
    <<command, " ">> \o (IF command = "INSERT" THEN <<"0", " ">> ELSE <<>>)
        \o DigitTokens(rows)

\* the row counts the server reports
RowCounts(command) == IF command = "INSERT" THEN {0, 1} ELSE {0, 1, 2, 10, 11}

\* what execute() or fetch() does: return a status string, return rows, or
\* raise
Outcomes(command) ==
    {<<"raise">>}
    \cup IF command = "SELECT" THEN {<<"rows">>}
         ELSE {status(command, n) : n \in RowCounts(command)}

\* a save() that falls back to INSERT whatever the UPDATE reported
update_failed_always(res_string) == TRUE

\* save(): `res_string == 'UPDATE 0'`
update_failed(res_string) == res_string = <<"UPDATE", " ", "0">>

\* a check of the status that every status passes
last_1_whatever(res_string) == TRUE

\* save() and delete(): `res_string[-1] == '1'`
last_1(res_string) == res_string[Len(res_string)] = "1"

NoTask ==
    [op |-> "none", pc |-> "idle", model |-> ModelNone, kwargs |-> <<>>,
     conn |-> NoConnection, txn |-> 0, res |-> <<>>, exc |-> "none", log |-> <<>>]

InitAsync ==
    /\ manager = NoManager
    /\ server = [opened |-> 0, held |-> {}, idle |-> {}, closed |-> {},
                 pool |-> FALSE, txns |-> 0]
    /\ task = NoTask

\* One manager shared by tasks that run `async with manager as conn` each
\* on its own: the manager's slots, each task's place in its scope, and the
\* driver's pools and connections, a connection being the n-th one opened.
NoPool == 0

\* the tasks
Tasks == {"t1", "t2"}

\* ConnectionManager.__init__ / PoolManager.__init__, with the slots of both
SharedManager(mgr) ==
    [kind |-> mgr.kind, keep_alive |-> mgr.keep_alive,
     _connection |-> NoConnection, _pool |-> NoPool]

\* a task that has not entered: conn is what __aenter__ returned, pool the
\* pool a call of the driver is made on, arg what __aexit__ gave close() or
\* release(), found what state that connection was in, used what state the
\* connection was in when the block used it
NoScope ==
    [pc |-> "enter", conn |-> NoConnection, pool |-> NoPool,
     arg |-> NoConnection, found |-> "none", used |-> "none", exc |-> "none"]

InitScopes ==
    /\ shared = SharedManager(NoManager)
    /\ scopes = [t \in Tasks |-> NoScope]
    /\ driver = [pools |-> 0, conns |-> <<>>]

\* the connection pool.acquire() returns: an idle one of the pool, or a new
\* one
acquire(drv, pool) ==
    IF \E c \in 1..Len(drv.conns) :
          drv.conns[c].pool = pool /\ drv.conns[c].state = "idle"
    THEN CHOOSE c \in 1..Len(drv.conns) :
            /\ drv.conns[c].pool = pool /\ drv.conns[c].state = "idle"
            /\ \A d \in 1..c - 1 :
                  ~(drv.conns[d].pool = pool /\ drv.conns[d].state = "idle")
    ELSE Len(drv.conns) + 1

\* the driver once connection c of the pool is handed out, or opened by
\* asyncpg.connect() (no pool)
handed(drv, pool, c) ==
    [drv EXCEPT !.conns =
        IF c > Len(@) THEN Append(@, [pool |-> pool, state |-> "held"])
        ELSE [@ EXCEPT ![c].state = "held"]]

\* the driver once connection c is let go of: idle in its pool after
\* release(), closed after close()
let_go(drv, c, state) == [drv EXCEPT !.conns[c].state = state]

\* Classes as they are defined: vars(cls) is a sequence of entries, one per
\* name of the class namespace in the order of the dict, each the attribute
\* name and the Column object bound to it, NoColumn for a value that is no
\* Column.  A Column object is known by the class and the attribute it was
\* written under; column_keys holds its `key`.
NoColumn == <<>>

Entry(attr, col) == [attr |-> attr, col |-> col]

\* isinstance(val, Column)
IsColumn(entry) == entry.col # NoColumn

\* `key not in namespace`
InNamespace(namespace, attr) ==
    \E i \in 1..Len(namespace) : namespace[i].attr = attr

\* lines 98-100, for one base: its Columns under names the namespace lacks
\* are put in the namespace, after what it holds
RECURSIVE merge_base(_, _)
merge_base(namespace, base_vars) ==
    IF base_vars = <<>> THEN namespace
    ELSE merge_base(
            IF IsColumn(Head(base_vars))
                /\ ~InNamespace(namespace, Head(base_vars).attr)
            THEN Append(namespace, Head(base_vars)) ELSE namespace,
            Tail(base_vars))

\* lines 96-100: `for base in bases`, bases_vars the vars() of each
RECURSIVE merge_bases(_, _)
merge_bases(namespace, bases_vars) ==
    IF bases_vars = <<>> THEN namespace
    ELSE merge_bases(merge_base(namespace, Head(bases_vars)), Tail(bases_vars))

\* a loop that sets no key
set_keys_never(keys, namespace) == keys

\* lines 102-104: a Column of the namespace whose key is None gets the name
\* it is under
RECURSIVE set_keys(_, _)
set_keys(keys, namespace) ==
    IF namespace = <<>> THEN keys
    ELSE set_keys(
            IF IsColumn(Head(namespace)) /\ keys[Head(namespace).col] = None
            THEN [keys EXCEPT ![Head(namespace).col] = Head(namespace).attr]
            ELSE keys,
            Tail(namespace))

\* ModelMeta.__new__: the vars of the class made, and the keys of the Column
\* objects after it
ModelMeta__new__(namespace, bases_vars, keys) ==
    [vars |-> merge_bases(namespace, bases_vars),
     keys |-> set_keys(keys, merge_bases(namespace, bases_vars))]

\* type.__new__ of a class that has no BaseModel among its ancestors: the
\* namespace as it is
type__new__(namespace, bases_vars, keys) ==
    [vars |-> namespace, keys |-> keys]

\* BaseModel._columns of a class with these vars: (attribute name, Column)
RECURSIVE columns_of_vars(_)
columns_of_vars(cls_vars) ==
    IF cls_vars = <<>> THEN <<>>
    ELSE (IF IsColumn(Head(cls_vars)) THEN <<Head(cls_vars)>> ELSE <<>>)
         \o columns_of_vars(Tail(cls_vars))

\* BaseModel.column_names of a class with these vars
column_names_of_vars(cls_vars, keys) ==
    [i \in 1..Len(columns_of_vars(cls_vars)) |->
        keys[columns_of_vars(cls_vars)[i].col]]

\* the classes the program defines, in this order, and the attributes their
\* bodies may bind
ClassNames == <<"A", "B", "C">>

ClassAttrs == <<"id", "name">>

ClassSet == {ClassNames[i] : i \in 1..Len(ClassNames)}

ColumnObjects == ClassSet \X {ClassAttrs[i] : i \in 1..Len(ClassAttrs)}

NoClass ==
    [defined |-> FALSE, model |-> FALSE, bases |-> <<>>, body |-> <<>>,
     vars |-> <<>>]

InitMeta ==
    /\ classes = [c \in ClassSet |-> NoClass]
    /\ column_keys = [o \in ColumnObjects |-> None]

\* the last operation on a model object or class: what it was given and how
\* it ended
Access(op, id, cls, name, value, kwargs, rv, exc) ==
    [op |-> op, id |-> id, cls |-> cls, name |-> name, value |-> value,
     kwargs |-> kwargs, rv |-> rv, exc |-> exc]

NoAccess == Access("none", "-", "None", "", None, <<>>, None, "none")

\* the objects the program holds: none to begin with
ObjectIds == {"x", "y"}

InitObjects ==
    /\ objects = [id \in ObjectIds |-> ModelNone]
    /\ attrs = [id \in ObjectIds |-> NoAttrs]
    /\ made = [f \in Callables |-> 0]
    /\ access = NoAccess

Init ==
    /\ builder = BaseStatement__init__(ModelNone, <<>>, 1)
    /\ call = Constructed(ModelNone)
    /\ calls = 0
    /\ chain = "none"
    /\ InitObjects
    /\ InitAsync
    /\ reading = NoReading
    /\ InitMeta
    /\ InitScopes

NewStatement(model) ==
    /\ calls = 0
    /\ builder' = BaseStatement__init__(model, <<>>, 1)
    /\ call' = Constructed(model)
    /\ calls' = 1
    /\ chain' = "none"
    /\ UNCHANGED <<object_vars, async_vars, reading_vars, meta_vars, scope_vars>>

\* a factory: a new builder, one call on it; the caller gets the builder
\* only when the call returns
Factory(op, model, kwargs, r) ==
    /\ calls = 0
    /\ builder' = r.b
    /\ call' = Called(op, TRUE, model, kwargs, FALSE, FALSE, r)
    /\ calls' = 1
    /\ chain' = IF r.exc = "none" THEN "fluent" ELSE "lost"
    /\ UNCHANGED <<object_vars, async_vars, reading_vars, meta_vars, scope_vars>>

SelectFactory(model) ==
    Factory("select", model, <<>>, select(BaseStatement__init__(model, <<>>, 1)))

InsertFactory(model, kwargs) ==
    Factory("insert", model, kwargs,
            insert(BaseStatement__init__(model, kwargs, 1), <<>>))

UpdateFactory(model, kwargs) ==
    Factory("update", model, kwargs,
            update(BaseStatement__init__(model, kwargs, 1), <<>>))

DeleteFactory(model, kwargs) ==
    Factory("delete", model, kwargs, delete(BaseStatement__init__(model, kwargs, 1)))

\* a method called on the builder the caller holds
Method(op, kwargs, pk, safe, r) ==
    /\ calls > 0
    /\ chain # "lost"
    /\ calls < MaxCalls
    /\ builder' = r.b
    /\ call' = Called(op, FALSE, builder.model, kwargs, pk, safe, r)
    /\ calls' = calls + 1
    /\ chain' = IF chain = "fluent" /\ op = "where" /\ ~safe /\ r.exc = "none"
                THEN "fluent" ELSE "broken"
    /\ UNCHANGED <<object_vars, async_vars, reading_vars, meta_vars, scope_vars>>

CallSelect == Method("select", <<>>, FALSE, FALSE, select(builder))

CallInsert(kwargs) == Method("insert", kwargs, FALSE, FALSE, insert(builder, kwargs))

CallUpdate(kwargs) == Method("update", kwargs, FALSE, FALSE, update(builder, kwargs))

CallDelete == Method("delete", <<>>, FALSE, FALSE, delete(builder))

CallFrom == Method("from_", <<>>, FALSE, FALSE, from_(builder))

CallWhere(pk, safe, kwargs) ==
    Method("where", kwargs, pk, safe, where(builder, pk, safe, kwargs))

\* the caller drops the builder
Discard ==
    /\ calls > 0
    /\ builder' = BaseStatement__init__(ModelNone, <<>>, 1)
    /\ call' = Constructed(ModelNone)
    /\ calls' = 0
    /\ chain' = "none"
    /\ UNCHANGED <<object_vars, async_vars, reading_vars, meta_vars, scope_vars>>

Next ==
    \/ \E m \in Models : NewStatement(m)
    \/ \E m \in Models : SelectFactory(m)
    \/ \E m \in Models : \E kw \in Kwargs(m.cls) : InsertFactory(m, kw)
    \/ \E m \in Models : \E kw \in Kwargs(m.cls) : UpdateFactory(m, kw)
    \/ \E m \in Models : \E kw \in Kwargs(m.cls) : DeleteFactory(m, kw)
    \/ CallSelect
    \/ \E kw \in Kwargs(builder.model.cls) : CallInsert(kw)
    \/ \E kw \in Kwargs(builder.model.cls) : CallUpdate(kw)
    \/ CallDelete
    \/ CallFrom
    \/ \E pk \in BOOLEAN, safe \in BOOLEAN :
          \E kw \in Kwargs(builder.model.cls) : CallWhere(pk, safe, kw)
    \/ Discard

Spec == Init /\ [][Next]_vars

---------------------------------------------------------------------------
(* Model objects: construction, assignment, attribute reads, and the two   *)
(* name mappings, which are called on a class and read no object: they are *)
(* called before the objects are made.                                     *)

\* the largest number of calls made of one default factory
MaxFactoryCalls == 2
\* the largest number of keyword arguments given to a constructor
MaxInitKw == 1

\* the values assigned to a name: None, a falsy value and, for a primary
\* key, a truthy one; one value for a name that matches no column
AssignedValues(cls, name) ==
    IF ~HasColumn(cls, name) THEN {"5"}
    ELSE IF _columns(cls)[MatchIndex(cls, name)].primary_key THEN {None, "0", "5"}
    ELSE {None, "0"}

\* the keyword arguments a constructor may be given
InitItems(cls) ==
    {item \in NamesOf(cls) \X {None, "0", "5"} :
        item[2] \in AssignedValues(cls, item[1])}

InitKwargs(cls) ==
    UNION { { kw \in [1..n -> InitItems(cls)] :
                \A i, j \in 1..n : i # j => kw[i][1] # kw[j][1] } : n \in 0..MaxInitKw }

InstanceClasses == {"Account", "Link"}

TheObject(id) == Object(objects[id], attrs[id])

\* id = cls(**kwargs), ending with the object obj; y is made after x, as a
\* second instance of the class with the default factories
NewObject(id, cls, kwargs, obj) ==
    /\ objects[id].kind = "none"
    /\ id = "y" => objects["x"].cls = "Account" /\ cls = "Account"
    /\ objects' = [objects EXCEPT ![id] = obj.model]
    /\ attrs' = [attrs EXCEPT ![id] = obj.attrs]
    /\ access' = Access("__init__", id, cls, "", None, kwargs, None, "none")
    /\ UNCHANGED made
    /\ UNCHANGED <<statement_vars, async_vars, reading_vars, meta_vars, scope_vars>>

\* id.name = value, ending with the object obj
SetAttr(id, name, value, obj) ==
    /\ objects[id].kind = "instance"
    /\ objects' = [objects EXCEPT ![id] = obj.model]
    /\ attrs' = [attrs EXCEPT ![id] = obj.attrs]
    /\ access' = Access("__setattr__", id, objects[id].cls, name, value, <<>>,
                        None, "none")
    /\ UNCHANGED made
    /\ UNCHANGED <<statement_vars, async_vars, reading_vars, meta_vars, scope_vars>>

\* id.name read, ending as r
GetAttr(id, name, r) ==
    /\ objects[id].kind = "instance"
    /\ \A f \in Callables : r.made[f] <= MaxFactoryCalls
    /\ objects' = [objects EXCEPT ![id] = r.obj.model]
    /\ attrs' = [attrs EXCEPT ![id] = r.obj.attrs]
    /\ made' = r.made
    /\ access' = Access("getattr", id, objects[id].cls, name, None, <<>>,
                        r.rv, r.exc)
    /\ UNCHANGED <<statement_vars, async_vars, reading_vars, meta_vars, scope_vars>>

\* cls.attr_name_for_column(name)
CallAttrNameForColumn(cls, name) ==
    /\ \A id \in ObjectIds : objects[id].kind = "none"
    /\ access' = IF HasColumn(cls, name)
                 THEN Access("attr_name_for_column", "-", cls, name, None, <<>>,
                             attr_name_for_column(cls, name), "none")
                 ELSE Access("attr_name_for_column", "-", cls, name, None, <<>>,
                             None, "ValueError")
    /\ UNCHANGED <<objects, attrs, made>>
    /\ UNCHANGED <<statement_vars, async_vars, reading_vars, meta_vars, scope_vars>>

\* cls.ensured_column_name(name)
CallEnsuredColumnName(cls, name) ==
    /\ \A id \in ObjectIds : objects[id].kind = "none"
    /\ access' = IF HasColumn(cls, name)
                 THEN Access("ensured_column_name", "-", cls, name, None, <<>>,
                             ensured_column_name(cls, name), "none")
                 ELSE Access("ensured_column_name", "-", cls, name, None, <<>>,
                             None, "ValueError")
    /\ UNCHANGED <<objects, attrs, made>>
    /\ UNCHANGED <<statement_vars, async_vars, reading_vars, meta_vars, scope_vars>>

NextObjects ==
    \/ \E id \in ObjectIds, cls \in InstanceClasses : \E kw \in InitKwargs(cls) :
          NewObject(id, cls, kw, BaseModel__init__(cls, kw))
    \/ \E id \in ObjectIds : \E name \in NamesOf(objects[id].cls) :
          \E value \in AssignedValues(objects[id].cls, name) :
             SetAttr(id, name, value, BaseModel__setattr__(TheObject(id), name, value))
    \/ \E id \in ObjectIds : \E name \in NamesOf(objects[id].cls) :
          GetAttr(id, name, getattr(TheObject(id), name, made))
    \/ \E cls \in InstanceClasses : \E name \in NamesOf(cls) :
          CallAttrNameForColumn(cls, name)
    \/ \E cls \in InstanceClasses : \E name \in NamesOf(cls) :
          CallEnsuredColumnName(cls, name)

SpecObjects == Init /\ [][NextObjects]_vars

---------------------------------------------------------------------------
(* AsyncModel: save(), delete(), get() and get_one(), one call at a time,  *)
(* each a walk through its two `async with` blocks.                        *)

\* the largest number of calls that open a transaction
MaxTasks == 2

\* class User(AsyncModel, connection=mgr)
Declare(mgr) ==
    /\ manager.kind = "none"
    /\ manager' = mgr
    /\ UNCHANGED <<server, task>>
    /\ UNCHANGED <<statement_vars, object_vars, reading_vars, meta_vars, scope_vars>>

\* a call of op starts, on an instance (save, delete) or on a class with
\* kwargs (get, get_one)
Begin(op, model, kwargs) ==
    /\ manager.kind # "none"
    /\ task.pc \in {"idle", "done"}
    /\ server.txns < MaxTasks
    /\ task' = [NoTask EXCEPT !.op = op, !.pc = "enter", !.model = model,
                              !.kwargs = kwargs]
    /\ UNCHANGED <<manager, server>>
    /\ UNCHANGED <<statement_vars, object_vars, reading_vars, meta_vars, scope_vars>>

\* `async with self.connection() as conn`: __aenter__, which returns a
\* connection or lets the driver's error through; a connection kept alive
\* is returned without a call of the driver
Enter(ok) ==
    /\ task.pc = "enter"
    /\ ok \/ acquired(manager, server) # manager._connection
    /\ manager' = IF ok THEN aenter_manager(manager, server) ELSE manager
    /\ server' = IF ok THEN aenter_server(manager, server) ELSE server
    /\ task' = IF ok
               THEN [task EXCEPT !.conn = acquired(manager, server),
                                 !.pc = "transaction"]
               ELSE [task EXCEPT !.exc = "OSError", !.pc = "done"]
    /\ UNCHANGED <<statement_vars, object_vars, reading_vars, meta_vars, scope_vars>>

\* `async with conn.transaction()`: a transaction begins on the connection
Transaction ==
    /\ task.pc = "transaction"
    /\ server' = [server EXCEPT !.txns = @ + 1]
    /\ task' = [task EXCEPT
                    !.txn = server.txns + 1,
                    !.pc = CASE task.op = "save"   -> "update"
                             [] task.op = "delete" -> "delete"
                             [] OTHER              -> "fetch"]
    /\ UNCHANGED manager
    /\ UNCHANGED <<statement_vars, object_vars, reading_vars, meta_vars, scope_vars>>

\* `await conn.execute(*stmt)` or `await conn.fetch(*stmt)`, where building
\* the statement ended as r and the driver's call as o; the log keeps the
\* statements the driver was given
Execute(pc, command, r, o, next) ==
    /\ task.pc = pc
    /\ task' =
        IF r.exc # "none"
        THEN [task EXCEPT !.model = r.b.model, !.exc = r.exc,
                          !.pc = "transaction_exit"]
        ELSE IF o = <<"raise">>
        THEN [task EXCEPT !.model = r.b.model, !.exc = "PostgresError",
                          !.pc = "transaction_exit"]
        ELSE [task EXCEPT
                !.model = r.b.model,
                !.res = o,
                !.log = Append(@, [command |-> command, conn |-> task.conn,
                                   txn |-> task.txn, status |-> o,
                                   stmt |-> r.b]),
                !.pc = next]
    /\ UNCHANGED <<manager, server>>
    /\ UNCHANGED <<statement_vars, object_vars, reading_vars, meta_vars, scope_vars>>

\* save(): res_string = await conn.execute(*update(self))
ExecuteUpdate(o) ==
    Execute("update", "UPDATE",
            update(BaseStatement__init__(task.model, <<>>, 1), <<>>), o,
            IF update_failed(o) THEN "insert" ELSE "transaction_exit")

\* save(): res_string = await conn.execute(*insert(self))
ExecuteInsert(o) ==
    Execute("insert", "INSERT",
            insert(BaseStatement__init__(task.model, <<>>, 1), <<>>), o,
            "transaction_exit")

\* delete(): delete_result = await conn.execute(*delete(self))
ExecuteDelete(o) ==
    Execute("delete", "DELETE",
            delete(BaseStatement__init__(task.model, <<>>, 1)), o,
            "transaction_exit")

\* get() and get_one(): `if kwargs: stmt.where(**kwargs)` on select(cls)
select_where(r, kwargs) ==
    IF r.exc # "none" \/ kwargs = <<>> THEN r
    ELSE where(r.b, FALSE, FALSE, kwargs)

\* get() and get_one(): res = await conn.fetch(*stmt) / conn.fetchrow(*stmt)
Fetch(o) ==
    Execute("fetch", "SELECT",
            select_where(select(BaseStatement__init__(task.model, <<>>, 1)),
                         task.kwargs),
            o, "transaction_exit")

\* the transaction block is left: rolled back when the block raised, else
\* committed, which the server may refuse
TransactionExit(ok) ==
    /\ task.pc = "transaction_exit"
    /\ ok \/ task.exc = "none"
    /\ task' = [task EXCEPT !.exc = IF ok THEN @ ELSE "PostgresError",
                            !.pc = "exit"]
    /\ UNCHANGED <<manager, server>>
    /\ UNCHANGED <<statement_vars, object_vars, reading_vars, meta_vars, scope_vars>>

\* the connection block is left: __aexit__; an exception of the block goes
\* on to the caller, get() and get_one() have returned from inside it
Exit ==
    /\ task.pc = "exit"
    /\ manager' = aexit_manager(manager, task.exc)
    /\ server' = aexit_server(manager, aexit_manager(manager, task.exc), server)
    /\ task' = [task EXCEPT !.pc = IF task.exc = "none" /\ task.op \in {"save", "delete"}
                                   THEN "check" ELSE "done"]
    /\ UNCHANGED <<statement_vars, object_vars, reading_vars, meta_vars, scope_vars>>

\* save() and delete(), after the blocks: the check of the status string
Finish ==
    /\ task.pc = "check"
    /\ task' = [task EXCEPT !.exc = IF last_1(task.res) THEN "none"
                                    ELSE "ExecutionFailure",
                            !.pc = "done"]
    /\ UNCHANGED <<manager, server>>
    /\ UNCHANGED <<statement_vars, object_vars, reading_vars, meta_vars, scope_vars>>

NextAsync ==
    \/ \E mgr \in {ConnectionManager(FALSE), ConnectionManager(TRUE), PoolManager} :
          Declare(mgr)
    \/ \E op \in {"save", "delete"}, m \in Instances : Begin(op, m, <<>>)
    \/ \E op \in {"get", "get_one"}, cls \in ModelClasses :
          \E kw \in Kwargs(cls) : Begin(op, ModelClass(cls), kw)
    \/ \E ok \in BOOLEAN : Enter(ok)
    \/ Transaction
    \/ \E o \in Outcomes("UPDATE") : ExecuteUpdate(o)
    \/ \E o \in Outcomes("INSERT") : ExecuteInsert(o)
    \/ \E o \in Outcomes("DELETE") : ExecuteDelete(o)
    \/ \E o \in Outcomes("SELECT") : Fetch(o)
    \/ \E ok \in BOOLEAN : TransactionExit(ok)
    \/ Exit
    \/ Finish

SpecAsync == Init /\ [][NextAsync]_vars

---------------------------------------------------------------------------
(* The builder's values set directly and read: set_statement() called by   *)
(* the caller with a fragment of its own, and query_string(), query_args(), *)
(* query() and iteration called on the builder as it then is.              *)

\* the builders the caller makes
ValueModels ==
    {ModelNone, ModelClass("User"), ModelInstance("Pair", <<"7", "8">>)}

\* the fragments the caller gives set_statement: the key, the query string
\* and the args
Fragments ==
    { <<"select", <<"SELECT ", "users", ".", "name">>, <<>>>>,
      <<"insert", <<"INSERT INTO ", "users", " (", "name", ") VALUES (",
                    "$", "1", ")">>, <<"'a'">>>>,
      <<"from_", <<"FROM ", "users">>, <<>>>>,
      <<"from_", <<"FROM ", "users", " TABLESAMPLE SYSTEM (", "$", "2", ")">>,
                 <<"10">>>>,
      <<"where", <<"WHERE", " ", "users", ".", "name", " = ", "$", "3">>,
                 <<"'w'">>>>,
      <<"where", <<>>, <<>>>> }

Separators == {"\n", " "}

\* builder.set_statement(key, query_string, args), ending as r
SetStatement(key, qs, args, r) ==
    /\ calls > 0
    /\ builder' = r.b
    /\ call' = Called("set_statement", FALSE, builder.model, <<>>, FALSE, FALSE, r)
    /\ reading' = NoReading
    /\ UNCHANGED <<calls, chain>>
    /\ UNCHANGED <<object_vars, async_vars, meta_vars, scope_vars>>

\* Statement(model), select(model), update(model), and the builder dropped
MakeValues ==
    /\ \/ \E m \in ValueModels : NewStatement(m)
       \/ \E m \in ValueModels : SelectFactory(m)
       \/ \E m \in ValueModels : UpdateFactory(m, <<>>)
       \/ Discard
    /\ reading = NoReading

\* the caller reads the builder: query_string(sep), query_args(), query()
\* and tuple(builder)
Read(sep) ==
    /\ calls > 0
    /\ ~reading.done
    /\ reading' = [done |-> TRUE, sep |-> sep,
                   query_string |-> StatementValues_query_string(builder, sep),
                   query_args |-> StatementValues_query_args(builder),
                   query |-> BaseStatement_query(builder),
                   iter |-> BaseStatement__iter__(builder)]
    /\ UNCHANGED statement_vars
    /\ UNCHANGED <<object_vars, async_vars, meta_vars, scope_vars>>

\* the caller has read what it wanted
Forget ==
    /\ reading.done
    /\ reading' = NoReading
    /\ UNCHANGED statement_vars
    /\ UNCHANGED <<object_vars, async_vars, meta_vars, scope_vars>>

NextValues ==
    \/ MakeValues
    \/ \E f \in Fragments : SetStatement(f[1], f[2], f[3],
                                         set_statement(builder, f[1], f[2], f[3]))
    \/ \E sep \in Separators : Read(sep)
    \/ Forget

SpecValues == Init /\ [][NextValues]_vars

---------------------------------------------------------------------------
(* Classes defined: `class C(bases): body`, for model classes (a BaseModel  *)
(* among the ancestors, so made by ModelMeta) and for plain classes that    *)
(* carry Columns to mix in.                                                *)

\* what a class body binds a name to: nothing, a value that is no Column,
\* Column() or Column(key)
Absent == "<absent>"

Plain == "<plain>"

Bindings ==
    [ id   |-> {Absent, Plain, None, "_id"},
      name |-> {Absent, None} ]

\* the class bodies: for each attribute, in the order written, its binding
Bodies ==
    { body \in [1..Len(ClassAttrs) -> {Absent, Plain, None, "_id"}] :
        \A i \in 1..Len(ClassAttrs) : body[i] \in Bindings[ClassAttrs[i]] }

\* the namespace of the body of class c: an entry for every name bound, with
\* a new Column object for Column(...)
RECURSIVE namespace_from(_, _, _)
namespace_from(c, body, i) ==
    IF i > Len(body) THEN <<>>
    ELSE (IF body[i] = Absent THEN <<>>
          ELSE IF body[i] = Plain THEN <<Entry(ClassAttrs[i], NoColumn)>>
          ELSE <<Entry(ClassAttrs[i], <<c, ClassAttrs[i]>>)>>)
         \o namespace_from(c, body, i + 1)

\* Column.__init__ of the Columns of the body: self.key = key
RECURSIVE keys_from(_, _, _, _)
keys_from(keys, c, body, i) ==
    IF i > Len(body) THEN keys
    ELSE keys_from(
            IF body[i] \in {Absent, Plain} THEN keys
            ELSE [keys EXCEPT ![<<c, ClassAttrs[i]>>] = body[i]],
            c, body, i + 1)

\* the sequences of base classes: none, one, or two different ones
BaseLists(defined) ==
    {<<>>} \cup {<<b>> : b \in defined}
           \cup {bs \in {<<b1, b2>> : b1 \in defined, b2 \in defined} :
                     bs[1] # bs[2]}

BasesVars(bases) == [i \in 1..Len(bases) |-> classes[bases[i]].vars]

\* the class statement for c, which made the class made
DefineClass(c, model, bases, body, made_) ==
    /\ ~classes[c].defined
    /\ \A i \in 1..Len(ClassNames) :
          ClassNames[i] = c => \A j \in 1..(i - 1) : classes[ClassNames[j]].defined
    /\ (\E i \in 1..Len(bases) : classes[bases[i]].model) => model
    /\ classes' = [classes EXCEPT ![c] =
                      [defined |-> TRUE, model |-> model, bases |-> bases,
                       body |-> body, vars |-> made_.vars]]
    /\ column_keys' = made_.keys
    /\ UNCHANGED <<statement_vars, object_vars, async_vars, reading_vars, scope_vars>>

\* class c(BaseModel, *bases) or class c(*bases) with a model among them
DefineModel(c, bases, body) ==
    DefineClass(c, TRUE, bases, body,
        ModelMeta__new__(namespace_from(c, body, 1), BasesVars(bases),
                         keys_from(column_keys, c, body, 1)))

\* class c(*bases), all plain
DefinePlain(c, bases, body) ==
    DefineClass(c, FALSE, bases, body,
        type__new__(namespace_from(c, body, 1), BasesVars(bases),
                    keys_from(column_keys, c, body, 1)))

DefinedClasses == {c \in ClassSet : classes[c].defined}

NextMeta ==
    \/ \E c \in ClassSet : \E bases \in BaseLists(DefinedClasses) :
          \E body \in Bodies : DefineModel(c, bases, body)
    \/ \E c \in ClassSet : \E bases \in BaseLists(DefinedClasses) :
          \E body \in Bodies : DefinePlain(c, bases, body)

SpecMeta == Init /\ [][NextMeta]_vars

---------------------------------------------------------------------------
(* Scopes of one shared manager run by several tasks: __aenter__, the      *)
(* block and __aexit__ of each, a step from one `await` to the next, the    *)
(* tasks taking turns where they await.                                    *)

\* manager = ConnectionManager(...) or PoolManager(...), shared by the model
\* classes
DeclareShared(mgr) ==
    /\ shared.kind = "none"
    /\ shared' = SharedManager(mgr)
    /\ UNCHANGED <<scopes, driver>>
    /\ UNCHANGED <<statement_vars, object_vars, async_vars, reading_vars, meta_vars>>

\* PoolManager.__aenter__ up to its first await: create_pool() called when
\* _pool is None, else acquire() called on _pool
PoolAenter(t) ==
    /\ shared.kind = "PoolManager"
    /\ scopes[t].pc = "enter"
    /\ scopes' = [scopes EXCEPT
                    ![t].pc = IF shared._pool = NoPool THEN "create_pool"
                              ELSE "acquire",
                    ![t].pool = shared._pool]
    /\ UNCHANGED <<shared, driver>>
    /\ UNCHANGED <<statement_vars, object_vars, async_vars, reading_vars, meta_vars>>

\* create_pool() returns a new pool: self._pool = it, and acquire() is
\* called on self._pool
PoolCreated(t) ==
    /\ scopes[t].pc = "create_pool"
    /\ driver' = [driver EXCEPT !.pools = @ + 1]
    /\ shared' = [shared EXCEPT !._pool = driver.pools + 1]
    /\ scopes' = [scopes EXCEPT ![t].pc = "acquire",
                                ![t].pool = driver.pools + 1]
    /\ UNCHANGED <<statement_vars, object_vars, async_vars, reading_vars, meta_vars>>

\* acquire() returns a connection: self._connection = it; return
\* self._connection
PoolAcquired(t) ==
    /\ scopes[t].pc = "acquire"
    /\ driver' = handed(driver, scopes[t].pool, acquire(driver, scopes[t].pool))
    /\ shared' = [shared EXCEPT !._connection = acquire(driver, scopes[t].pool)]
    /\ scopes' = [scopes EXCEPT ![t].pc = "block",
                                ![t].conn = acquire(driver, scopes[t].pool)]
    /\ UNCHANGED <<statement_vars, object_vars, async_vars, reading_vars, meta_vars>>

\* ConnectionManager.__aenter__ up to its await: connect() called when
\* _connection is None, else _connection returned
ConnectionAenter(t) ==
    /\ shared.kind = "ConnectionManager"
    /\ scopes[t].pc = "enter"
    /\ scopes' = [scopes EXCEPT
                    ![t].pc = IF shared._connection = NoConnection
                              THEN "connect" ELSE "block",
                    ![t].conn = shared._connection]
    /\ UNCHANGED <<shared, driver>>
    /\ UNCHANGED <<statement_vars, object_vars, async_vars, reading_vars, meta_vars>>

\* connect() returns a new connection: self._connection = it; return
\* self._connection
ConnectionOpened(t) ==
    /\ scopes[t].pc = "connect"
    /\ driver' = handed(driver, NoPool, Len(driver.conns) + 1)
    /\ shared' = [shared EXCEPT !._connection = Len(driver.conns) + 1]
    /\ scopes' = [scopes EXCEPT ![t].pc = "block",
                                ![t].conn = Len(driver.conns) + 1]
    /\ UNCHANGED <<statement_vars, object_vars, async_vars, reading_vars, meta_vars>>

\* the block of the scope: conn.transaction() and the statements awaited on
\* conn, as save() and delete() have them
Block(t) ==
    /\ scopes[t].pc = "block"
    /\ scopes' = [scopes EXCEPT ![t].pc = "exit",
                                ![t].used = driver.conns[scopes[t].conn].state]
    /\ UNCHANGED <<shared, driver>>
    /\ UNCHANGED <<statement_vars, object_vars, async_vars, reading_vars, meta_vars>>

\* PoolManager.__aexit__ up to its await: self._pool.release(
\* self._connection) called, which raises InterfaceError for None
PoolAexit(t) ==
    /\ shared.kind = "PoolManager"
    /\ scopes[t].pc = "exit"
    /\ scopes' = [scopes EXCEPT
                    ![t].pc = IF shared._connection = NoConnection THEN "done"
                              ELSE "release",
                    ![t].arg = shared._connection,
                    ![t].exc = IF shared._connection = NoConnection
                               THEN "InterfaceError" ELSE "none"]
    /\ UNCHANGED <<shared, driver>>
    /\ UNCHANGED <<statement_vars, object_vars, async_vars, reading_vars, meta_vars>>

\* release() returns, the connection idle in its pool (one released before
\* is left as it is): self._connection = None
PoolReleased(t) ==
    /\ scopes[t].pc = "release"
    /\ driver' = let_go(driver, scopes[t].arg, "idle")
    /\ shared' = [shared EXCEPT !._connection = NoConnection]
    /\ scopes' = [scopes EXCEPT ![t].pc = "done",
                                ![t].found = driver.conns[scopes[t].arg].state]
    /\ UNCHANGED <<statement_vars, object_vars, async_vars, reading_vars, meta_vars>>

\* ConnectionManager.__aexit__ up to its await: nothing done when the
\* connection is kept alive, else self._connection.close() called, an
\* AttributeError when _connection is None
ConnectionAexit(t) ==
    /\ shared.kind = "ConnectionManager"
    /\ scopes[t].pc = "exit"
    /\ scopes' = [scopes EXCEPT
                    ![t].pc = IF shared.keep_alive
                                 \/ shared._connection = NoConnection
                              THEN "done" ELSE "close",
                    ![t].arg = IF shared.keep_alive THEN NoConnection
                               ELSE shared._connection,
                    ![t].exc = IF ~shared.keep_alive
                                  /\ shared._connection = NoConnection
                               THEN "AttributeError" ELSE "none"]
    /\ UNCHANGED <<shared, driver>>
    /\ UNCHANGED <<statement_vars, object_vars, async_vars, reading_vars, meta_vars>>

\* close() returns, the connection closed: self._connection = None
ConnectionClosed(t) ==
    /\ scopes[t].pc = "close"
    /\ driver' = let_go(driver, scopes[t].arg, "closed")
    /\ shared' = [shared EXCEPT !._connection = NoConnection]
    /\ scopes' = [scopes EXCEPT ![t].pc = "done",
                                ![t].found = driver.conns[scopes[t].arg].state]
    /\ UNCHANGED <<statement_vars, object_vars, async_vars, reading_vars, meta_vars>>

NextScopes ==
    \/ \E mgr \in {ConnectionManager(FALSE), ConnectionManager(TRUE), PoolManager} :
          DeclareShared(mgr)
    \/ \E t \in Tasks : PoolAenter(t)
    \/ \E t \in Tasks : PoolCreated(t)
    \/ \E t \in Tasks : PoolAcquired(t)
    \/ \E t \in Tasks : ConnectionAenter(t)
    \/ \E t \in Tasks : ConnectionOpened(t)
    \/ \E t \in Tasks : Block(t)
    \/ \E t \in Tasks : PoolAexit(t)
    \/ \E t \in Tasks : PoolReleased(t)
    \/ \E t \in Tasks : ConnectionAexit(t)
    \/ \E t \in Tasks : ConnectionClosed(t)

SpecScopes == Init /\ [][NextScopes]_vars

---------------------------------------------------------------------------
(* What the properties below read off a state.                             *)

\* the placeholder numbers of a query string, left to right
RECURSIVE PlaceholderNumbers(_)
PlaceholderNumbers(toks) ==
    IF Len(toks) < 2 THEN <<>>
    ELSE IF Head(toks) = "$"
    THEN <<int(<<toks[2]>>)>> \o PlaceholderNumbers(Tail(Tail(toks)))
    ELSE PlaceholderNumbers(Tail(toks))

\* the conditions of a fragment from its i-th token on, each as
\* <<column key, placeholder number>>
RECURSIVE ConditionsFrom(_, _)
ConditionsFrom(toks, i) ==
    IF i > Len(toks) THEN <<>>
    ELSE (IF toks[i] = "$" /\ i > 2 /\ toks[i - 1] = " = "
          THEN << <<toks[i - 2], int(<<toks[i + 1]>>)>> >> ELSE <<>>)
         \o ConditionsFrom(toks, i + 1)

Conditions(frag) == ConditionsFrom(frag.qs, 1)

ConditionKeys(frag) == [j \in 1..Len(Conditions(frag)) |-> Conditions(frag)[j][1]]

ConditionNumbers(frag) == [j \in 1..Len(Conditions(frag)) |-> Conditions(frag)[j][2]]

\* strs joined by sep, as one string
RECURSIVE JoinStrings(_, _)
JoinStrings(sep, strs) ==
    IF strs = <<>> THEN ""
    ELSE IF Len(strs) = 1 THEN strs[1]
    ELSE strs[1] \o sep \o JoinStrings(sep, Tail(strs))

\* "$first, ..., $(first + n - 1)"
Dollars(first, n) == JoinStrings(", ", [i \in 1..n |-> "$" \o Str(first + i - 1)])

\* the database keys of a model's columns, in declaration order
KeysOf(cls) == [i \in 1..Len(ColumnsOf[cls]) |-> ColumnsOf[cls][i].key]

\* the value an instance shows for its i-th column
ValueOf(m, i) ==
    IF m.stored[i] # None THEN m.stored[i] ELSE ColumnsOf[m.cls][i].default

InstanceValues(m) == [i \in 1..Len(m.stored) |-> ValueOf(m, i)]

\* the primary-key columns of an instance, each as <<key, value>>
PrimaryKeyItems(m) ==
    LET all == [i \in 1..Len(m.stored) |->
                    [key |-> ColumnsOf[m.cls][i].key,
                     pk |-> ColumnsOf[m.cls][i].primary_key,
                     value |-> ValueOf(m, i)]]
        IsPk(c) == c.pk
        pks == SelectSeq(all, IsPk)
    IN  [j \in 1..Len(pks) |-> <<pks[j].key, pks[j].value>>]

\* the columns of cls a keyword names, by attribute name or by database key
ColumnsNamed(cls, name) ==
    {i \in 1..Len(ColumnsOf[cls]) :
        ColumnsOf[cls][i].attr = name \/ ColumnsOf[cls][i].key = name}

IsColumnName(cls, name) == ColumnsNamed(cls, name) # {}

IsPrimaryKeyName(cls, name) ==
    \E i \in ColumnsNamed(cls, name) : ColumnsOf[cls][i].primary_key

\* the keyword arguments that name a primary key, each as <<key, value>>
PrimaryKeyKwargs(cls, kwargs) ==
    LET Names(item) == IsPrimaryKeyName(cls, item[1])
        pks == SelectSeq(kwargs, Names)
    IN  [j \in 1..Len(pks) |->
            <<ColumnsOf[cls][CHOOSE i \in ColumnsNamed(cls, pks[j][1]) : TRUE].key,
              pks[j][2]>>]

Firsts(items) == [j \in 1..Len(items) |-> items[j][1]]

Seconds(items) == [j \in 1..Len(items) |-> items[j][2]]

\* the values a where() that returned has bound, given the builder it left
WhereValues(b, only_primary_keys) ==
    IF b.kwargs # <<>>
    THEN IF only_primary_keys THEN Seconds(PrimaryKeyKwargs(b.model.cls, b.kwargs))
         ELSE Seconds(b.kwargs)
    ELSE Seconds(PrimaryKeyItems(b.model))

\* the statement kinds a builder holds a value for
HeldKinds(b) == {k \in {"select", "insert", "update", "delete"} : b[k].set}

Statements(b) == [k \in {"select", "insert", "update", "delete"} |-> b[k]]

\* this step is a call of the method op on the builder the caller holds
MethodStep(op) == calls' = calls + 1 /\ ~call'.factory /\ call'.op = op

---------------------------------------------------------------------------
(* The properties.                                                         *)

\* C1: after one factory call followed by where() calls that returned, the
\* placeholders of query_string(), left to right, are $1, ..., $n with
\* n = len(query_args())
C1_PlaceholdersNumberTheArgs ==
    chain = "fluent" =>
        PlaceholderNumbers(query_string(builder, "\n"))
            = [i \in 1..Len(query_args(builder)) |-> i]

\* C2: a where() that returns on a builder already holding a WHERE fragment
\* replaces the fragment and its args, and the first placeholder of the new
\* fragment has the number of the first placeholder of the replaced one
C2_WhereReusesFirstPlaceholder ==
    [][ (MethodStep("where") /\ builder.where.set
            /\ call'.exc = "none" /\ ~call'.swallowed)
        => /\ builder'.where.set
           /\ builder'.where.args = WhereValues(builder', call'.primary_keys)
           /\ query_args(builder') = get_statement(builder).args \o builder'.from_.args
                                        \o WhereValues(builder', call'.primary_keys)
           /\ ConditionNumbers(builder'.where)[1] = ConditionNumbers(builder.where)[1]
      ]_vars

\* C2, without the placeholder number: the fragment and its args are replaced
C2_WhereReplacesFragment ==
    [][ (MethodStep("where") /\ builder.where.set
            /\ call'.exc = "none" /\ ~call'.swallowed)
        => /\ builder'.where.set
           /\ builder'.where.args = WhereValues(builder', call'.primary_keys)
           /\ query_args(builder') = get_statement(builder).args \o builder'.from_.args
                                        \o WhereValues(builder', call'.primary_keys)
      ]_vars

\* C3: update(instance), for an instance of a model with primary keys, yields
\* UPDATE <table> SET (<cols>) = ($1, ..., $n), a WHERE with one condition per
\* primary-key column numbered $n+1 onward, and the column values followed by
\* the primary-key values as args, whatever the primary-key values are
C3_UpdateInstance ==
    (call.op = "update" /\ call.factory /\ call.model.kind = "instance"
        /\ call.kwargs = <<>> /\ PrimaryKeyItems(call.model) # <<>>)
    => LET cls == call.model.cls
           n   == Len(ColumnsOf[cls])
           pks == PrimaryKeyItems(call.model)
       IN  /\ call.exc = "none"
           /\ Text(builder.update.qs)
                = "UPDATE " \o tablename(cls) \o " SET ("
                    \o JoinStrings(", ", KeysOf(cls)) \o ") = (" \o Dollars(1, n) \o ")"
           /\ Conditions(builder.where) = [j \in 1..Len(pks) |-> <<pks[j][1], n + j>>]
           /\ query_args(builder) = InstanceValues(call.model) \o Seconds(pks)

\* C3, for the instances whose primary-key values are all truthy
C3_UpdateInstanceTruthyKeys ==
    (call.op = "update" /\ call.factory /\ call.model.kind = "instance"
        /\ call.kwargs = <<>> /\ PrimaryKeyItems(call.model) # <<>>
        /\ \A j \in 1..Len(PrimaryKeyItems(call.model)) :
                Truthy(PrimaryKeyItems(call.model)[j][2]))
    => LET cls == call.model.cls
           n   == Len(ColumnsOf[cls])
           pks == PrimaryKeyItems(call.model)
       IN  /\ call.exc = "none"
           /\ Text(builder.update.qs)
                = "UPDATE " \o tablename(cls) \o " SET ("
                    \o JoinStrings(", ", KeysOf(cls)) \o ") = (" \o Dollars(1, n) \o ")"
           /\ Conditions(builder.where) = [j \in 1..Len(pks) |-> <<pks[j][1], n + j>>]
           /\ query_args(builder) = InstanceValues(call.model) \o Seconds(pks)

C5_SelectModel ==
    /\ (call.op = "select" /\ call.factory /\ call.model.kind # "none")
            => call.exc = "none"
    /\ (call.op = "select" /\ call.exc = "none")
            => LET cls == builder.model.cls
               IN  /\ Text(query_string(builder, "\n"))
                        = "SELECT "
                            \o JoinStrings(", ",
                                   [i \in 1..Len(KeysOf(cls)) |->
                                        tablename(cls) \o "." \o KeysOf(cls)[i]])
                            \o "\n" \o "FROM " \o tablename(cls)
                   /\ builder.from_.set
                   /\ query_args(builder) = <<>>

\* C5 happens: select(User)
C5_Witness ==
    /\ call.op = "select" /\ call.factory /\ call.exc = "none"
    /\ Text(query_string(builder, "\n"))
            = "SELECT users._id, users.name, users.email\nFROM users"

\* C6: a builder holds at most one statement; once one kind is set, setting
\* another kind raises and leaves the held statement as it was; from_() and
\* where() can still set and overwrite their clauses
C6_AtMostOneStatement ==
    /\ [](Cardinality(HeldKinds(builder)) <= 1)
    /\ [][ \A op \in {"select", "insert", "update", "delete"} :
            (MethodStep(op) /\ HeldKinds(builder) # {} /\ op \notin HeldKinds(builder))
            => /\ call'.exc = "TypeError"
               /\ Statements(builder') = Statements(builder) ]_vars
    /\ [][ (MethodStep("from_") /\ HeldKinds(builder) # {})
            => /\ call'.exc = "none"
               /\ builder'.from_
                    = Value(<<"FROM ", tablename(builder.model.cls)>>, <<>>)
               /\ Statements(builder') = Statements(builder) ]_vars
    /\ [][ (MethodStep("where") /\ HeldKinds(builder) # {}
                /\ call'.exc = "none" /\ ~call'.swallowed)
            => /\ builder'.where.set
               /\ builder'.where.args = WhereValues(builder', call'.primary_keys)
               /\ Statements(builder') = Statements(builder) ]_vars

\* C6 happens: insert() was called on a builder holding a select
C6_Witness ==
    /\ call.op = "insert" /\ ~call.factory /\ call.exc = "TypeError"
    /\ HeldKinds(builder) = {"select"}
    /\ builder.from_.set

\* C7 as the specification words it: setting a statement of the kind already
\* held does not fail
C7_SameKindAccepted ==
    [][ \A op \in {"select", "delete"} :
            (MethodStep(op) /\ op \in HeldKinds(builder)) => call'.exc = "none" ]_vars

\* C7: setting a statement of the kind already held fails as setting another
\* kind does, with TypeError, and the held statement stays as it was
C7_SameKindRefused ==
    [][ \A op \in {"select", "insert", "update", "delete"} :
            (MethodStep(op) /\ op \in HeldKinds(builder))
            => /\ call'.exc = "TypeError"
               /\ Statements(builder') = Statements(builder) ]_vars

\* C7 happens: select() was called on a builder holding a select
C7_Witness ==
    /\ call.op = "select" /\ ~call.factory /\ call.exc = "TypeError"
    /\ HeldKinds(builder) = {"select"}

\* the primary-key values delete() can resolve: those the kwargs name, or
\* without kwargs those of a bound instance when it carries all of them
ResolvablePrimaryKeys ==
    IF call.kwargs # <<>> THEN PrimaryKeyKwargs(call.model.cls, call.kwargs)
    ELSE IF call.model.kind = "instance"
            /\ \A j \in 1..Len(PrimaryKeyItems(call.model)) :
                    PrimaryKeyItems(call.model)[j][2] # None
    THEN PrimaryKeyItems(call.model)
    ELSE <<>>

\* C8: delete(model, **kwargs) yields DELETE FROM <table>, followed, when
\* primary-key values can be resolved from the kwargs or a bound instance, by
\* a WHERE over them numbered from $1 with those values as args; when nothing
\* can be resolved no error is raised and the query is the bare DELETE
C8_Delete ==
    (call.op = "delete" /\ call.factory /\ call.model.kind # "none")
    => /\ call.exc = "none"
       /\ Text(builder.delete.qs) = "DELETE FROM " \o tablename(call.model.cls)
       /\ ~builder.from_.set
       /\ IF ResolvablePrimaryKeys # <<>>
          THEN /\ Conditions(builder.where)
                    = [j \in 1..Len(ResolvablePrimaryKeys) |->
                            <<ResolvablePrimaryKeys[j][1], j>>]
               /\ query_args(builder) = Seconds(ResolvablePrimaryKeys)
          ELSE /\ ~builder.where.set
               /\ Text(query_string(builder, "\n"))
                    = "DELETE FROM " \o tablename(call.model.cls)
               /\ query_args(builder) = <<>>

\* C8, for the bound instances whose primary-key values are all truthy, for
\* classes, and for kwargs
C8_DeleteTruthyKeys ==
    (call.op = "delete" /\ call.factory /\ call.model.kind # "none"
        /\ (call.kwargs = <<>> =>
                \A j \in 1..Len(ResolvablePrimaryKeys) :
                    Truthy(ResolvablePrimaryKeys[j][2])))
    => /\ call.exc = "none"
       /\ Text(builder.delete.qs) = "DELETE FROM " \o tablename(call.model.cls)
       /\ ~builder.from_.set
       /\ IF ResolvablePrimaryKeys # <<>>
          THEN /\ Conditions(builder.where)
                    = [j \in 1..Len(ResolvablePrimaryKeys) |->
                            <<ResolvablePrimaryKeys[j][1], j>>]
               /\ query_args(builder) = Seconds(ResolvablePrimaryKeys)
          ELSE /\ ~builder.where.set
               /\ Text(query_string(builder, "\n"))
                    = "DELETE FROM " \o tablename(call.model.cls)
               /\ query_args(builder) = <<>>

\* a keyword of the call names no column of the builder's model
SomeKeywordIsNoColumn ==
    \E i \in 1..Len(call.kwargs) : ~IsColumnName(call.model.cls, call.kwargs[i][1])

\* the first keyword of the call that names no column
FirstKeywordNoColumn ==
    call.kwargs[CHOOSE i \in 1..Len(call.kwargs) :
        /\ ~IsColumnName(call.model.cls, call.kwargs[i][1])
        /\ \A j \in 1..(i - 1) : IsColumnName(call.model.cls, call.kwargs[j][1])][1]

\* C9 as the specification words it: where(**kwargs) with primary_keys=False,
\* on a builder holding a statement, raises ValueError carrying the key
\* whenever a keyword names no column
C9_DisallowedColumnRaised ==
    (call.op = "where" /\ ~call.factory /\ ~call.primary_keys
        /\ HeldKinds(builder) # {} /\ SomeKeywordIsNoColumn)
    => call.exc = "ValueError" /\ call.excarg = FirstKeywordNoColumn

\* C9: where(**kwargs) with primary_keys=False and safe_call=False, on a
\* builder holding a statement, raises ValueError carrying the key whenever a
\* keyword names no column, and the WHERE clause stays as it was
C9_DisallowedColumnRaisedUnlessSafeCall ==
    [][ (MethodStep("where") /\ ~call'.primary_keys /\ ~call'.safe_call
            /\ HeldKinds(builder) # {} /\ SomeKeywordIsNoColumn')
        => /\ call'.exc = "ValueError"
           /\ call'.excarg = FirstKeywordNoColumn'
           /\ builder'.where = builder.where
           /\ Statements(builder') = Statements(builder) ]_vars

\* C9 happens: where(name='y', bogus=1) raised ValueError('bogus')
C9_Witness ==
    /\ call.op = "where" /\ ~call.primary_keys /\ ~call.safe_call
    /\ call.kwargs = << <<"name", "'y'">>, <<"bogus", "1">> >>
    /\ HeldKinds(builder) # {}
    /\ call.exc = "ValueError" /\ call.excarg = "bogus"
    /\ ~builder.where.set

\* where() has run with primary_keys=True over the builder's kwargs: called
\* so on a builder holding a statement, or chained by update() or delete()
PrimaryKeyWhereRanOverKwargs ==
    /\ builder.kwargs # <<>>
    /\ \/ call.op = "where" /\ ~call.factory /\ call.primary_keys
            /\ HeldKinds(builder) # {}
       \/ call.op \in {"update", "delete"} /\ call.factory /\ builder[call.op].set

\* C10: when where() runs with primary_keys=True over bound kwargs, a kwarg
\* that names no primary key raises nothing, takes no placeholder number and
\* adds no arg; the WHERE fragment holds the primary-key kwargs only
C10_NonPrimaryKeysSkipped ==
    PrimaryKeyWhereRanOverKwargs
    => LET pks   == PrimaryKeyKwargs(builder.model.cls, builder.kwargs)
           first == Len(get_statement(builder).args) + 1
       IN  /\ call.exc # "ValueError"
           /\ pks # <<>> =>
                /\ call.exc = "none" /\ ~call.swallowed
                /\ ConditionKeys(builder.where) = Firsts(pks)
                /\ builder.where.args = Seconds(pks)
                /\ \A j \in 1..Len(pks) :
                        ConditionNumbers(builder.where)[j]
                            = ConditionNumbers(builder.where)[1] + j - 1
                /\ builder.count = ConditionNumbers(builder.where)[1] + Len(pks)
                /\ call.factory => ConditionNumbers(builder.where)[1] = first
           /\ pks = <<>> =>
                /\ call.exc = "TypeError" \/ call.swallowed
                /\ call.factory => ~builder.where.set /\ builder.count = first

\* C10 happens: update(User, name='y', id=123) chained its where() over a
\* kwarg that is no primary key and one that is
C10_Witness ==
    /\ call.op = "update" /\ call.factory /\ call.exc = "none"
    /\ call.kwargs = << <<"name", "'y'">>, <<"id", "123">> >>
    /\ Conditions(builder.where) = << <<"_id", 4>> >>
    /\ builder.where.args = <<"123">>

\* where() has run over the builder's kwargs or bound instance: called on a
\* builder that holds a statement and a model
WhereRan ==
    /\ call.op = "where" /\ ~call.factory
    /\ HeldKinds(builder) # {}
    /\ builder.model.kind # "none"

AllFalsy(values) == \A j \in 1..Len(values) : values[j] \in Falsy

\* C11: over kwargs, where the check is a set of keys, a falsy-valued pair is
\* dropped though its key is valid, and where() fails with TypeError when
\* nothing else is left; over a bound instance, where the check is None,
\* every primary-key pair is included whatever its value
C11_FalsyPairDroppedUnderCheck ==
    WhereRan
    => /\ builder.kwargs # <<>> =>
            /\ call.exc = "none" /\ ~call.swallowed =>
                    \A j \in 1..Len(builder.where.args) :
                        Truthy(builder.where.args[j])
            /\ AllFalsy(Seconds(builder.kwargs)) =>
                    call.exc \in {"TypeError", "ValueError"} \/ call.swallowed
       /\ builder.kwargs = <<>> /\ builder.model.kind = "instance" =>
            /\ call.exc = "none" /\ ~call.swallowed
            /\ builder.where.args = Seconds(PrimaryKeyItems(builder.model))

\* C12: after update() returned, from a bound instance or from kwargs, the
\* WHERE fragment has one condition for every primary-key column of the
\* model, in declaration order, numbered from the number after the last
\* placeholder of the SET fragment
C12_UpdateWhereHasEveryPrimaryKey ==
    call.op = "update" /\ call.exc = "none"
    => /\ builder.update.set /\ builder.where.set
       /\ ConditionKeys(builder.where) = primary_keys(builder.model.cls)
       /\ \A j \in 1..Len(ConditionNumbers(builder.where)) :
                ConditionNumbers(builder.where)[j] = Len(builder.update.args) + j

\* nothing is set on the builder: no statement and no clause
NothingSet(b) == HeldKinds(b) = {} /\ ~b.from_.set /\ ~b.where.set

\* C24: select() or insert() called on a builder bound to None and holding
\* no kwargs, with no kwargs, raises TypeError, and no statement and no
\* clause is set on the builder
C24_NoModelRaisesTypeError ==
    (call.op \in {"select", "insert"} /\ call.model.kind = "none"
        /\ call.kwargs = <<>> /\ builder.kwargs = <<>>)
    => call.exc = "TypeError" /\ NothingSet(builder)

\* this step is a where() called with safe_call=True that caught the failure
\* of building the fragment and returned the builder
SwallowedWhereStep ==
    MethodStep("where") /\ call'.safe_call /\ call'.swallowed

\* the builder after the step shows what it showed before: the query string,
\* the args and the number the next placeholder gets
BuilderShowsTheSame ==
    /\ query_string(builder', "\n") = query_string(builder, "\n")
    /\ query_args(builder') = query_args(builder)
    /\ builder'.count = builder.count

\* C28: a where(safe_call=True) that could not build a fragment returns the
\* builder with the query string, the args and the number of the next
\* placeholder it had before the call
C28_SwallowedWhereLeavesBuilder ==
    [][SwallowedWhereStep => BuilderShowsTheSame]_vars

\* this step is an insert() or update() called on a builder that holds a
\* statement, which raised TypeError
RejectedStatementStep ==
    /\ MethodStep("insert") \/ MethodStep("update")
    /\ HeldKinds(builder) # {}
    /\ call'.exc = "TypeError"

\* C29: an insert() or update() rejected because the builder already holds
\* a statement leaves the query string, the args and the number of the next
\* placeholder as they were
C29_RejectedStatementLeavesBuilder ==
    [][RejectedStatementStep => BuilderShowsTheSame]_vars

\* the text of a condition: <table>.<key> = $<n>
ConditionText(table, cond) == table \o "." \o cond[1] \o " = $" \o Str(cond[2])

\* C30: a WHERE fragment of two conditions or more is the word WHERE, a
\* space, and the conditions <table>.<key> = $n separated by " AND ", their
\* placeholder numbers increasing by one from each to the next
C30_ConditionsJoinedByAnd ==
    (builder.where.set /\ Len(Conditions(builder.where)) >= 2)
    => /\ Text(builder.where.qs)
            = "WHERE "
                \o JoinStrings(" AND ",
                       [j \in 1..Len(Conditions(builder.where)) |->
                            ConditionText(tablename(builder.model.cls),
                                          Conditions(builder.where)[j])])
       /\ \A j \in 2..Len(Conditions(builder.where)) :
                ConditionNumbers(builder.where)[j]
                    = ConditionNumbers(builder.where)[j - 1] + 1

\* what holds of C30: the same, with " AND" and no space after it between
\* the conditions
C30_ConditionsJoinedByAndNoSpace ==
    (builder.where.set /\ Len(Conditions(builder.where)) >= 2)
    => /\ Text(builder.where.qs)
            = "WHERE "
                \o JoinStrings(" AND",
                       [j \in 1..Len(Conditions(builder.where)) |->
                            ConditionText(tablename(builder.model.cls),
                                          Conditions(builder.where)[j])])
       /\ \A j \in 2..Len(Conditions(builder.where)) :
                ConditionNumbers(builder.where)[j]
                    = ConditionNumbers(builder.where)[j - 1] + 1

---------------------------------------------------------------------------
(* The properties of the builder's values read, under SpecValues.          *)

\* the statement fragment a builder holds
HeldStatement(b) == b[CHOOSE k \in HeldKinds(b) : TRUE]

\* the texts of the fragments set on a builder: the statement, then the
\* from clause, then the where clause
SetTexts(b) ==
    <<Text(HeldStatement(b).qs)>>
        \o (IF b.from_.set THEN <<Text(b.from_.qs)>> ELSE <<>>)
        \o (IF b.where.set THEN <<Text(b.where.qs)>> ELSE <<>>)

\* the args of the clauses set on a builder: those of from, then of where
ClauseArgs(b) ==
    (IF b.from_.set THEN b.from_.args ELSE <<>>)
        \o (IF b.where.set THEN b.where.args ELSE <<>>)

\* what C22 says of a builder read, when query_args() of a builder without
\* a statement is to return expected_args
QueryStringNeedsStatement(expected_args) ==
    reading.done
    => /\ HeldKinds(builder) = {} =>
            /\ reading.query_string.exc = "TypeError"
            /\ reading.query_args.exc = "none"
            /\ reading.query_args.val = expected_args
       /\ HeldKinds(builder) # {} =>
            /\ reading.query_string.exc = "none"
            /\ reading.query_string.val
                    = JoinStrings(reading.sep, SetTexts(builder))

\* C22: query_string() raises TypeError whenever the builder holds no
\* statement, clauses set or not, while query_args() returns the empty
\* tuple and raises nothing; with a statement set, query_string(sep) is the
\* statement fragment followed by the clause fragments set, from then
\* where, joined by sep
C22_NoStatementNoArgs == QueryStringNeedsStatement(<<>>)

\* C22, amended: without a statement query_args() returns the args of the
\* clauses set, from then where, the empty tuple when they hold none
C22_NoStatementClauseArgs == QueryStringNeedsStatement(ClauseArgs(builder))

\* C22 happens: a builder with a FROM clause and no statement was read
C22_Witness ==
    /\ reading.done
    /\ HeldKinds(builder) = {} /\ builder.from_.set /\ ~builder.where.set
    /\ reading.query_string.exc = "TypeError"
    /\ reading.query_args.val = <<>>

\* C23: for a builder holding a statement, query() and iteration yield the
\* same sequence: query_string(), then the args of the statement, of the
\* from clause and of the where clause, which is query_args()
C23_QueryAndIterationFlatten ==
    reading.done /\ HeldKinds(builder) # {}
    => /\ reading.query.exc = "none" /\ reading.iter.exc = "none"
       /\ reading.iter.val = reading.query.val
       /\ reading.query.val
            = <<JoinStrings("\n", SetTexts(builder))>>
                \o HeldStatement(builder).args \o ClauseArgs(builder)
       /\ SubSeq(reading.query.val, 2, Len(reading.query.val))
            = reading.query_args.val
       /\ reading.sep = "\n" => reading.query.val[1] = reading.query_string.val

\* C23 happens: a builder whose statement, from clause and where clause
\* each hold an arg was read
C23_Witness ==
    /\ reading.done
    /\ reading.iter.val
        = << "INSERT INTO users (name) VALUES ($1)\n"
                \o "FROM users TABLESAMPLE SYSTEM ($2)\n"
                \o "WHERE users.name = $3",
             "'a'", "10", "'w'" >>

---------------------------------------------------------------------------
(* The properties of model objects, under SpecObjects.                     *)

\* this step reads the attribute of a Column on an object
ColumnReadStep ==
    /\ access'.op = "getattr"
    /\ IsColumnAttr(access'.cls, access'.name)

\* C17: a read of a column on an instance that holds no value for it
\* resolves the default, calling the factory once when it is callable, and
\* stores it; a read that follows returns the same value and calls no
\* factory, whatever the default or the factory's result is; the other
\* instance is left as it was
C17_DefaultComputedOnce ==
    [][ColumnReadStep =>
        LET id   == access'.id
            i    == AttrIndex(access'.cls, access'.name)
            col  == _columns(access'.cls)[i]
            next == getattr(Object(objects'[id], attrs'[id]), access'.name, made')
        IN  /\ objects[id].stored[i] = None =>
                /\ access'.rv = default_rv(col, made)
                /\ made' = default_made(col, made)
                /\ objects'[id].stored[i] = access'.rv
            /\ next.rv = access'.rv
            /\ next.made = made'
            /\ \A other \in ObjectIds \ {id} :
                    objects'[other] = objects[other] /\ attrs'[other] = attrs[other]
    ]_vars

\* what holds of C17: the same, for the reads that return a value other
\* than None
C17_DefaultComputedOnceUnlessNone ==
    [][ColumnReadStep /\ access'.rv # None =>
        LET id   == access'.id
            i    == AttrIndex(access'.cls, access'.name)
            col  == _columns(access'.cls)[i]
            next == getattr(Object(objects'[id], attrs'[id]), access'.name, made')
        IN  /\ objects[id].stored[i] = None =>
                /\ access'.rv = default_rv(col, made)
                /\ made' = default_made(col, made)
                /\ objects'[id].stored[i] = access'.rv
            /\ next.rv = access'.rv
            /\ next.made = made'
            /\ \A other \in ObjectIds \ {id} :
                    objects'[other] = objects[other] /\ attrs'[other] = attrs[other]
    ]_vars

\* the last operation assigned a value under a name that resolves to a column
ColumnWasSet == access.op = "__setattr__" /\ HasColumn(access.cls, access.name)

\* the column a name resolves to in __setattr__
SlotOf(cls, name) == AttrIndex(cls, attr_name_for_column(cls, name))

\* C18: after a value is set on a column of an instance, a get returns that
\* value, calls no default factory and leaves the instance as it is, for
\* every value, None and the other falsy values included, whatever the
\* column's default
C18_SetValueIsRead ==
    ColumnWasSet
    => LET g == Column__get__call(objects[access.id],
                                  SlotOf(access.cls, access.name), made)
       IN  /\ g.rv = access.value
           /\ g.made = made
           /\ g.model = objects[access.id]

\* what holds of C18: the same, for every value other than None
C18_SetValueIsReadUnlessNone ==
    ColumnWasSet /\ access.value # None
    => LET g == Column__get__call(objects[access.id],
                                  SlotOf(access.cls, access.name), made)
       IN  /\ g.rv = access.value
           /\ g.made = made
           /\ g.model = objects[access.id]

\* the value the constructor's kwargs give the i-th column: the value of the
\* last item that names it, by its key or its attribute; None without one
RECURSIVE GivenTo(_, _, _)
GivenTo(cls, i, kwargs) ==
    IF kwargs = <<>> THEN None
    ELSE IF i \in ColumnsNamed(cls, kwargs[Len(kwargs)][1])
    THEN kwargs[Len(kwargs)][2]
    ELSE GivenTo(cls, i, SubSeq(kwargs, 1, Len(kwargs) - 1))

\* the value the kwargs give a name that matches no column, Unset without one
RECURSIVE GivenPlain(_, _)
GivenPlain(name, kwargs) ==
    IF kwargs = <<>> THEN Unset
    ELSE IF kwargs[Len(kwargs)][1] = name THEN kwargs[Len(kwargs)][2]
    ELSE GivenPlain(name, SubSeq(kwargs, 1, Len(kwargs) - 1))

\* the name is the key or the attribute of one column at most
OneColumnAtMost(cls, name) == Cardinality(ColumnsNamed(cls, name)) <= 1

\* what C19 says of a step that is a constructor call or an assignment, for
\* the names that satisfy Applies
EitherNameOneSlot(Applies(_, _)) ==
    /\ access'.op = "__init__"
            /\ (\A j \in 1..Len(access'.kwargs) :
                    Applies(access'.cls, access'.kwargs[j][1]))
       => /\ \A i \in 1..Len(_columns(access'.cls)) :
                objects'[access'.id].stored[i]
                    = GivenTo(access'.cls, i, access'.kwargs)
          /\ \A name \in NamesOf(access'.cls) :
                attrs'[access'.id][name]
                    = IF IsColumnName(access'.cls, name) THEN Unset
                      ELSE GivenPlain(name, access'.kwargs)
    /\ access'.op = "__setattr__" /\ Applies(access'.cls, access'.name)
       => /\ \A i \in 1..Len(_columns(access'.cls)) :
                objects'[access'.id].stored[i]
                    = IF i \in ColumnsNamed(access'.cls, access'.name)
                      THEN access'.value
                      ELSE objects[access'.id].stored[i]
          /\ \A i \in ColumnsNamed(access'.cls, access'.name) :
                access'.value # None =>
                    getattr(Object(objects'[access'.id], attrs'[access'.id]),
                            _columns(access'.cls)[i].attr, made').rv
                        = access'.value
          /\ \A name \in NamesOf(access'.cls) :
                attrs'[access'.id][name]
                    = IF ColumnsNamed(access'.cls, access'.name) = {}
                            /\ name = access'.name
                      THEN access'.value
                      ELSE attrs[access'.id][name]

AnyName(cls, name) == TRUE

KeysDistinct(cls) ==
    \A i, j \in 1..Len(_columns(cls)) :
        i # j => _columns(cls)[i].key # _columns(cls)[j].key

\* what C20 says of the last call of a name mapping, for the names that
\* satisfy Applies
MappingsInverse(Applies(_, _)) ==
    access.op \in {"ensured_column_name", "attr_name_for_column"}
        /\ KeysDistinct(access.cls) /\ Applies(access.cls, access.name)
    => /\ \A i \in ColumnsNamed(access.cls, access.name) :
            /\ access.exc = "none"
            /\ access.rv = IF access.op = "ensured_column_name"
                           THEN _columns(access.cls)[i].key
                           ELSE _columns(access.cls)[i].attr
       /\ ColumnsNamed(access.cls, access.name) = {} => access.exc = "ValueError"

\* C20: in a model whose column keys are pairwise distinct, for a column
\* with attribute a and key k, ensured_column_name gives k for a and for k,
\* attr_name_for_column gives a for k and for a; both raise ValueError for
\* a name that is neither an attribute nor a key
C20_MappingsInverse == MappingsInverse(AnyName)

\* C20, amended: the same, for the names that are the key or the attribute
\* of one column only
C20_MappingsInverseWhenOneColumn == MappingsInverse(OneColumnAtMost)

\* C20 happens: Account.ensured_column_name('id') returned '_id'
C20_Witness ==
    /\ access.op = "ensured_column_name" /\ access.cls = "Account"
    /\ access.name = "id" /\ access.rv = "_id" /\ access.exc = "none"

---------------------------------------------------------------------------
(* The properties of AsyncModel, under SpecAsync.                          *)

\* the number a sequence of digit tokens writes
RECURSIVE DigitsValue(_)
DigitsValue(ds) ==
    IF ds = <<>> THEN 0
    ELSE 10 * DigitsValue(SubSeq(ds, 1, Len(ds) - 1))
         + (CHOOSE k \in 0..9 : Digits[k + 1] = ds[Len(ds)])

\* the number of rows a status string reports: the number after its last
\* space
RowCount(res_string) ==
    LET last == CHOOSE i \in 1..Len(res_string) :
                    /\ res_string[i] = " "
                    /\ \A j \in (i + 1)..Len(res_string) : res_string[j] # " "
    IN  DigitsValue(SubSeq(res_string, last + 1, Len(res_string)))

\* the call has come to its end with both blocks left normally: it returned
\* or raised ExecutionFailure
BlocksLeftNormally ==
    task.pc = "done" /\ task.exc \in {"none", "ExecutionFailure"}

\* C13: in save() the first statement executed is the UPDATE; an INSERT is
\* executed only after the UPDATE reported zero rows, once at most, on the
\* connection and in the transaction of the UPDATE; after an UPDATE that
\* affected a row no INSERT is executed
C13_UpdateThenInsertOnlyAfterNoRow ==
    task.op = "save"
    => /\ Len(task.log) <= 2
       /\ Len(task.log) >= 1 => task.log[1].command = "UPDATE"
       /\ task.pc = "insert" =>
            Len(task.log) = 1 /\ RowCount(task.log[1].status) = 0
       /\ Len(task.log) = 2 =>
            /\ task.log[2].command = "INSERT"
            /\ RowCount(task.log[1].status) = 0
            /\ task.log[2].conn = task.log[1].conn
            /\ task.log[2].txn = task.log[1].txn
       /\ Len(task.log) >= 1 /\ RowCount(task.log[1].status) >= 1 =>
            task.pc # "insert" /\ Len(task.log) = 1

\* C13 happens: a save() whose UPDATE reported no row went on to the INSERT
\* and returned
C13_Witness ==
    /\ task.op = "save" /\ task.pc = "done" /\ task.exc = "none"
    /\ Len(task.log) = 2
    /\ task.log[1].status = <<"UPDATE", " ", "0">>
    /\ task.log[2].status = <<"INSERT", " ", "0", " ", "1">>

\* C14: a save() that has left its blocks normally raises ExecutionFailure
\* exactly when the status of the last statement it executed reports no
\* row; it returns for every status that reports one row or more
C14_FailureIffNoRow ==
    task.op = "save" /\ BlocksLeftNormally
    => (task.exc = "ExecutionFailure" <=> RowCount(task.res) = 0)

\* what holds of C14: it raises ExecutionFailure exactly when the last
\* character of the status is not '1'
C14_FailureIffNotEndingIn1 ==
    task.op = "save" /\ BlocksLeftNormally
    => (task.exc = "ExecutionFailure" <=> task.res[Len(task.res)] # "1")

\* C15: a delete() whose DELETE reported zero rows raises ExecutionFailure,
\* and one whose DELETE reported one row returns, unless the driver raised
C15_DeleteOfNoRowFails ==
    task.op = "delete" /\ task.pc = "done" /\ task.res # <<>>
        /\ task.exc # "PostgresError"
    => /\ task.res = <<"DELETE", " ", "0">> => task.exc = "ExecutionFailure"
       /\ task.res = <<"DELETE", " ", "1">> => task.exc = "none"

\* C15 happens: a delete() was told DELETE 0 and raised ExecutionFailure
C15_Witness ==
    /\ task.op = "delete" /\ task.pc = "done"
    /\ task.res = <<"DELETE", " ", "0">>
    /\ task.exc = "ExecutionFailure"

\* C16: with a ConnectionManager that does not keep its connection alive
\* and with a PoolManager, the manager holds a connection only between
\* __aenter__ and __aexit__, the one the call uses; once the call has
\* ended, however it ended, the connection it used is closed, or idle in
\* the pool, and the manager holds none
C16_ConnectionReleased ==
    manager.kind = "PoolManager"
        \/ (manager.kind = "ConnectionManager" /\ ~manager.keep_alive)
    => /\ task.pc \in {"idle", "enter", "check", "done"} =>
            manager._connection = NoConnection /\ server.held = {}
       /\ task.pc \in {"transaction", "update", "insert", "delete", "fetch",
                       "transaction_exit", "exit"} =>
            /\ task.conn # NoConnection
            /\ manager._connection = task.conn
            /\ server.held = {task.conn}
       /\ task.pc \in {"check", "done"} /\ task.conn # NoConnection =>
            IF manager.kind = "PoolManager" THEN task.conn \in server.idle
            ELSE task.conn \in server.closed

\* C16 happens: a get() whose where() raised ValueError inside the blocks
\* has ended, and its connection is closed
C16_Witness ==
    /\ task.op = "get" /\ task.pc = "done" /\ task.exc = "ValueError"
    /\ manager.kind = "ConnectionManager" /\ ~manager.keep_alive
    /\ task.conn # NoConnection /\ task.conn \in server.closed
    /\ manager._connection = NoConnection

\* C25: every DELETE that delete() sends to execute carries a WHERE with a
\* condition on each primary-key column of the instance's model, there is
\* one at least, bound to the instance's values; the bare DELETE FROM
\* <table> is never sent
C25_DeleteRestrictedToPrimaryKey ==
    task.op = "delete"
    => \A k \in 1..Len(task.log) :
          /\ primary_keys(task.model.cls) # <<>>
          /\ task.log[k].stmt.where.set
          /\ ConditionKeys(task.log[k].stmt.where) = primary_keys(task.model.cls)
          /\ task.log[k].stmt.where.args = Seconds(PrimaryKeyItems(task.model))
          /\ query(task.log[k].stmt)[1] # "DELETE FROM " \o tablename(task.model.cls)

\* what holds of C25: the same, for the instances that have a primary key
\* and whose primary-key values are all truthy
C25_DeleteRestrictedWhenKeysTruthy ==
    (task.op = "delete" /\ PrimaryKeyItems(task.model) # <<>>
        /\ \A j \in 1..Len(PrimaryKeyItems(task.model)) :
                Truthy(PrimaryKeyItems(task.model)[j][2]))
    => \A k \in 1..Len(task.log) :
          /\ task.log[k].stmt.where.set
          /\ ConditionKeys(task.log[k].stmt.where) = primary_keys(task.model.cls)
          /\ task.log[k].stmt.where.args = Seconds(PrimaryKeyItems(task.model))
          /\ query(task.log[k].stmt)[1] # "DELETE FROM " \o tablename(task.model.cls)

---------------------------------------------------------------------------
(* The properties of the classes defined read SpecMeta.                    *)

\* the registry of a class: BaseModel._columns
Registry(c) == columns_of_vars(classes[c].vars)

\* what the body of the class that wrote Column object o gave it as key
DeclaredKey(o) ==
    classes[o[1]].body[CHOOSE k \in 1..Len(ClassAttrs) : ClassAttrs[k] = o[2]]

\* the body of class c binds attr to a Column
DeclaresColumn(c, attr) == DeclaredKey(<<c, attr>>) \notin {Absent, Plain}

\* the body of class c binds attr
Binds(c, attr) == DeclaredKey(<<c, attr>>) # Absent

\* C21: once a model class is defined, every column of its registry, own or
\* of a base, has a key: the key it was declared with, or else the attribute
\* name it was declared under; a column the class declares itself stands in
\* the registry in place of a base's of the same attribute name, a base's
\* column under a name the class does not bind is in the registry, and
\* column_names() holds no None
C21_RegistryColumnsHaveKeys ==
    \A c \in ClassSet : (classes[c].defined /\ classes[c].model) =>
        LET reg == Registry(c) IN
        /\ \A i \in 1..Len(reg) :
              /\ column_keys[reg[i].col] # None
              /\ reg[i].attr = reg[i].col[2]
              /\ column_keys[reg[i].col] =
                    IF DeclaredKey(reg[i].col) = None THEN reg[i].col[2]
                    ELSE DeclaredKey(reg[i].col)
              /\ \A j \in 1..Len(reg) : reg[j].attr = reg[i].attr => j = i
              /\ DeclaresColumn(c, reg[i].attr) => reg[i].col[1] = c
        /\ \A k \in 1..Len(ClassAttrs) :
              DeclaresColumn(c, ClassAttrs[k]) =>
                  \E i \in 1..Len(reg) : reg[i].col = <<c, ClassAttrs[k]>>
        /\ \A b \in 1..Len(classes[c].bases) :
              \A j \in 1..Len(Registry(classes[c].bases[b])) :
                  ~Binds(c, Registry(classes[c].bases[b])[j].attr) =>
                      \E i \in 1..Len(reg) :
                          reg[i].attr = Registry(classes[c].bases[b])[j].attr
        /\ \A i \in 1..Len(reg) :
              column_names_of_vars(classes[c].vars, column_keys)[i] # None

\* a model class that takes a column declared without a key from a plain
\* base and declares, with a key, a column the base has too
C21_Witness ==
    \E c \in ClassSet :
        /\ classes[c].defined /\ classes[c].model
        /\ \E i, j \in 1..Len(Registry(c)) :
              /\ Registry(c)[i].col[1] # c
              /\ ~classes[Registry(c)[i].col[1]].model
              /\ DeclaredKey(Registry(c)[i].col) = None
              /\ Registry(c)[j].col[1] = c
              /\ DeclaredKey(Registry(c)[j].col) = "_id"
              /\ \E b \in 1..Len(classes[c].bases) :
                    DeclaresColumn(classes[c].bases[b], Registry(c)[j].attr)

---------------------------------------------------------------------------
(* The properties of the shared manager's scopes read SpecScopes.          *)

\* the tasks inside the block of their scope, or at its end with __aexit__
\* not yet called
InBlock == {t \in Tasks : scopes[t].pc \in {"block", "exit"}}

\* the tasks whose __aexit__ got its release() or close() back
LetGo == {t \in Tasks : scopes[t].pc = "done" /\ scopes[t].found # "none"}

AllDone == \A t \in Tasks : scopes[t].pc = "done"

\* C26: with one PoolManager shared by tasks that run scopes at once, a
\* scope releases the connection it acquired: no connection is idle in the
\* pool while a scope is in its block with it, none is released that was
\* idle already, none is held once all scopes are done, release() is never
\* called with None, and there is one pool at most
C26_PoolScopesReleaseTheirOwn ==
    shared.kind = "PoolManager" =>
        /\ \A t \in InBlock : driver.conns[scopes[t].conn].state = "held"
        /\ \A t \in Tasks : scopes[t].used \in {"none", "held"}
        /\ \A t \in Tasks :
              scopes[t].pc \in {"release", "done"} /\ scopes[t].exc = "none"
                  => scopes[t].arg = scopes[t].conn
        /\ \A t \in LetGo : scopes[t].found = "held"
        /\ AllDone => \A c \in 1..Len(driver.conns) :
                          driver.conns[c].state # "held"
        /\ \A t \in Tasks : scopes[t].exc # "InterfaceError"
        /\ driver.pools <= 1

\* C27: with one ConnectionManager(keep_alive=False) shared by tasks that
\* run scopes at once, no scope is handed or has in its block a connection
\* that was closed, every connection opened is closed once all scopes are
\* done and none is closed that was closed already, and __aexit__ never
\* finds _connection None
C27_ConnectionScopesCloseTheirOwn ==
    (shared.kind = "ConnectionManager" /\ ~shared.keep_alive) =>
        /\ \A t \in InBlock : driver.conns[scopes[t].conn].state = "held"
        /\ \A t \in Tasks : scopes[t].used \in {"none", "held"}
        /\ \A t \in LetGo : scopes[t].found = "held"
        /\ AllDone => \A c \in 1..Len(driver.conns) :
                          driver.conns[c].state = "closed"
        /\ \A t \in Tasks : scopes[t].exc # "AttributeError"

====
